---- MODULE Spec2Model ----
(***************************************************************************)
(* Model of the correlation engine of src/appstream.py:                    *)
(* CorrelationEngine.correlate, _find_best_match and _check_homepage_match *)
(* together with the string and URL operations they rely on.               *)
(*                                                                         *)
(* A Python str is a sequence of code points (naturals), so that           *)
(* str.lower, str.split, str.join and the ordering of strings are computed *)
(* and not assumed.  A confidence is an integer number of hundredths       *)
(* (0.95 is 95), which keeps the order and the equality of the five float  *)
(* literals of the source.                                                 *)
(***************************************************************************)
EXTENDS Integers, Sequences, FiniteSets, TLC

VARIABLES
    flathub_components,   \* argument of correlate: the keys of the dict, in dict order
    nixpkgs_packages,     \* argument of correlate: the NixPackage values, in dict order
    _known_mappings,      \* CorrelationEngine._known_mappings: (flathub_id, attr) items in dict order
    pc,                   \* position of the run: idle, phaseA, phaseB, sort, done, reported
    pname_to_packages,    \* local of correlate: index pname.lower() -> list of packages
    mappings,             \* local of correlate: list of AppStreamMapping
    matched_flathub_ids,  \* local of correlate
    matched_nix_attrs,    \* local of correlate
    idx,                  \* position of the running for loop (Phase A or Phase B)
    returned,             \* the lists returned by the calls of correlate made so far
    hp_pc,                \* position of a single call of _check_homepage_match
    hp_homepage,          \* its homepage argument
    hp_flathub_id,        \* the identifier whose parts are its flathub_parts argument
    hp_result,            \* its return value
    report,               \* the dict returned by generate_report, <<>> before it is called
    tr_pc,                \* position of a single call of _transform_component
    tr_component,         \* its component argument: the id and the children of raw_xml
    tr_attr,              \* mapping.nixpkgs_attr of its mapping argument
    tr_result             \* the children of the element it returns

vars == <<flathub_components, nixpkgs_packages, _known_mappings, pc,
          pname_to_packages, mappings, matched_flathub_ids, matched_nix_attrs,
          idx, returned, hp_pc, hp_homepage, hp_flathub_id, hp_result, report,
          tr_pc, tr_component, tr_attr, tr_result>>

engine_vars == <<flathub_components, nixpkgs_packages, _known_mappings, pc,
                 pname_to_packages, mappings, matched_flathub_ids,
                 matched_nix_attrs, idx, returned>>

hp_vars == <<hp_pc, hp_homepage, hp_flathub_id, hp_result>>

tr_vars == <<tr_pc, tr_component, tr_attr, tr_result>>

-----------------------------------------------------------------------------
(* Python str operations.                                                  *)

\* '.'
DOT == 46
\* '/'
SLASH == 47
\* ':'
COLON == 58
\* '['
LBRACKET == 91
\* ']'
RBRACKET == 93

\* str.lower() on ASCII: 'A'..'Z' (65..90) become 'a'..'z'.
Lower(s) ==
    [k \in 1..Len(s) |-> IF s[k] \in 65..90 THEN s[k] + 32 ELSE s[k]]

\* First position of code point c in s, 0 when absent (str.find + 1).
Find(s, c) ==
    IF \E k \in 1..Len(s) : s[k] = c
    THEN CHOOSE k \in 1..Len(s) : s[k] = c /\ \A m \in 1..(k - 1) : s[m] # c
    ELSE 0

\* s.split(c) for a one-character separator: empty pieces are kept.
RECURSIVE Split(_, _)
Split(s, c) ==
    IF Find(s, c) = 0
    THEN <<s>>
    ELSE <<SubSeq(s, 1, Find(s, c) - 1)>>
         \o Split(SubSeq(s, Find(s, c) + 1, Len(s)), c)

\* c.join(parts)
RECURSIVE Join(_, _)
Join(parts, c) ==
    IF parts = <<>> THEN <<>>
    ELSE IF Len(parts) = 1 THEN parts[1]
    ELSE parts[1] \o <<c>> \o Join(Tail(parts), c)

\* a < b for str: lexicographic on code points, a proper prefix is smaller.
RECURSIVE StrLess(_, _)
StrLess(a, b) ==
    IF b = <<>> THEN FALSE
    ELSE IF a = <<>> THEN TRUE
    ELSE IF a[1] # b[1] THEN a[1] < b[1]
    ELSE StrLess(Tail(a), Tail(b))

\* x in lst, for a list
InList(x, lst) == \E k \in 1..Len(lst) : lst[k] = x

\* lst[:n]
Prefix(lst, n) == SubSeq(lst, 1, IF n < Len(lst) THEN n ELSE Len(lst))

\* lst[:-1]
AllButLast(lst) == SubSeq(lst, 1, Len(lst) - 1)

\* The function f as the explicit table of its values, each computed once.
Tabulated(f) == f @@ <<>>

-----------------------------------------------------------------------------
(* String literals of the source.                                          *)
\* "github"
S_github ==
    <<103, 105, 116, 104, 117, 98>>

\* "gitlab"
S_gitlab ==
    <<103, 105, 116, 108, 97, 98>>

\* "codeberg"
S_codeberg ==
    <<99, 111, 100, 101, 98, 101, 114, 103>>

\* "sourceforge"
S_sourceforge ==
    <<115, 111, 117, 114, 99, 101, 102, 111, 114, 103, 101>>

\* "bitbucket"
S_bitbucket ==
    <<98, 105, 116, 98, 117, 99, 107, 101, 116>>

\* "gnome"
S_gnome ==
    <<103, 110, 111, 109, 101>>

\* "freedesktop"
S_freedesktop ==
    <<102, 114, 101, 101, 100, 101, 115, 107, 116, 111, 112>>

\* "pages"
S_pages ==
    <<112, 97, 103, 101, 115>>

\* "srht"
S_srht ==
    <<115, 114, 104, 116>>

\* "io.github"
S_io_github ==
    <<105, 111, 46, 103, 105, 116, 104, 117, 98>>

\* "io.gitlab"
S_io_gitlab ==
    <<105, 111, 46, 103, 105, 116, 108, 97, 98>>

\* "org.codeberg"
S_org_codeberg ==
    <<111, 114, 103, 46, 99, 111, 100, 101, 98, 101, 114, 103>>

\* "net.sourceforge"
S_net_sourceforge ==
    <<110, 101, 116, 46, 115, 111, 117, 114, 99, 101, 102, 111, 114, 103, 101>>

\* "io.bitbucket"
S_io_bitbucket ==
    <<105, 111, 46, 98, 105, 116, 98, 117, 99, 107, 101, 116>>

\* "org.gnome"
S_org_gnome ==
    <<111, 114, 103, 46, 103, 110, 111, 109, 101>>

\* "org.freedesktop"
S_org_freedesktop ==
    <<111, 114, 103, 46, 102, 114, 101, 101, 100, 101, 115, 107, 116, 111, 112>>

\* "io.srht"
S_io_srht ==
    <<105, 111, 46, 115, 114, 104, 116>>

\* "www"
S_www ==
    <<119, 119, 119>>

-----------------------------------------------------------------------------
(* The forge tables.                                                       *)

\* GIT_PLATFORMS: domain -> expected Flathub prefix.
GIT_PLATFORMS ==
    (S_github :> S_io_github) @@ (S_gitlab :> S_io_gitlab)
    @@ (S_codeberg :> S_org_codeberg) @@ (S_sourceforge :> S_net_sourceforge)
    @@ (S_bitbucket :> S_io_bitbucket)

\* GIT_SUBDOMAINS: the items (subdomain, domain) -> prefix, in dict order.
GIT_SUBDOMAINS ==
    << [sub |-> S_gitlab, dom |-> S_gnome, prefix |-> S_org_gnome],
       [sub |-> S_gitlab, dom |-> S_freedesktop, prefix |-> S_org_freedesktop],
       [sub |-> S_pages, dom |-> S_srht, prefix |-> S_io_srht] >>

-----------------------------------------------------------------------------
(* urllib.parse.urlparse and tldextract.extract, as called at              *)
(* appstream.py:627-629.  The homepages considered hold no whitespace, no  *)
(* userinfo and no IP address.                                             *)

\* The characters allowed in a URL scheme: letters, digits, '+', '-', '.'.
IsSchemeChar(c) ==
    c \in 97..122 \/ c \in 65..90 \/ c \in 48..57 \/ c \in {43, 45, 46}

\* s up to (not including) the first occurrence of c: s.partition(c)[0].
Before(s, c) == IF Find(s, c) = 0 THEN s ELSE SubSeq(s, 1, Find(s, c) - 1)

\* s from position k on: s[k-1:] in Python's 0-based terms.
From(s, k) == SubSeq(s, k, Len(s))

\* urlsplit: a scheme is the text before the first ':' when it starts with a
\* letter and holds scheme characters only.  0 when the URL has no scheme,
\* else the position of that ':'.
UrlSchemeColon(url) ==
    IF /\ Find(url, COLON) > 1
       /\ (url[1] \in 97..122 \/ url[1] \in 65..90)
       /\ \A k \in 1..(Find(url, COLON) - 1) : IsSchemeChar(url[k])
    THEN Find(url, COLON)
    ELSE 0

\* urlsplit: the URL with its scheme removed.
UrlAfterScheme(url) == From(url, UrlSchemeColon(url) + 1)

\* urlsplit: TRUE when a "//" netloc follows the scheme.
UrlHasNetloc(url) ==
    /\ Len(UrlAfterScheme(url)) >= 2
    /\ UrlAfterScheme(url)[1] = SLASH
    /\ UrlAfterScheme(url)[2] = SLASH

\* urlsplit: the netloc runs to the first of '/', '?', '#'.
UrlNetloc(url) ==
    IF UrlHasNetloc(url)
    THEN Before(Before(Before(From(UrlAfterScheme(url), 3), SLASH), 63), 35)
    ELSE <<>>

\* urlsplit raises ValueError("Invalid IPv6 URL") on an unbalanced bracket.
UrlparseRaises(url) ==
    LET netloc == UrlNetloc(url)
    IN  \/ (Find(netloc, LBRACKET) > 0 /\ Find(netloc, RBRACKET) = 0)
        \/ (Find(netloc, RBRACKET) > 0 /\ Find(netloc, LBRACKET) = 0)

\* urlparse(url).path: what follows the netloc, without query and fragment.
UrlPath(url) ==
    LET rest == IF UrlHasNetloc(url)
                THEN From(UrlAfterScheme(url), 3 + Len(UrlNetloc(url)))
                ELSE UrlAfterScheme(url)
    IN  Before(Before(rest, 35), 63)

\* s.rstrip(".")
RECURSIVE RStripDots(_)
RStripDots(s) ==
    IF s # <<>> /\ s[Len(s)] = DOT THEN RStripDots(AllButLast(s)) ELSE s

\* tldextract: the URL without its scheme ("//x" and "scheme://x" give "x").
TldSchemeless(url) ==
    IF Len(url) >= 2 /\ url[1] = SLASH /\ url[2] = SLASH THEN From(url, 3)
    ELSE IF /\ Find(url, COLON) > 0
            /\ Find(url, COLON) + 2 <= Len(url)
            /\ url[Find(url, COLON) + 1] = SLASH
            /\ url[Find(url, COLON) + 2] = SLASH
            /\ \A k \in 1..(Find(url, COLON) - 1) : IsSchemeChar(url[k])
         THEN From(url, Find(url, COLON) + 3)
         ELSE url

\* tldextract: the host name: up to '/', '?', '#', without port and trailing dots.
TldNetloc(url) ==
    RStripDots(Before(Before(Before(Before(TldSchemeless(url), SLASH), 63), 35), COLON))

\* "com"
S_com ==
    <<99, 111, 109>>
\* "org"
S_org ==
    <<111, 114, 103>>
\* "net"
S_net ==
    <<110, 101, 116>>
\* "io"
S_io ==
    <<105, 111>>
\* "uk"
S_uk ==
    <<117, 107>>
\* "co"
S_co ==
    <<99, 111>>

\* The entries of the public suffix list that the homepages considered meet,
\* each as its list of labels.
PublicSuffixes ==
    { <<S_com>>, <<S_org>>, <<S_net>>, <<S_io>>, <<S_uk>>, <<S_co, S_uk>> }

\* lst[-n:]
LastN(lst, n) == SubSeq(lst, Len(lst) - n + 1, Len(lst))

\* tldextract: the number of trailing labels that form the longest public
\* suffix; 0 when no suffix of the host is a public suffix.
SuffixLen(labels) ==
    LET hits == { n \in 1..Len(labels) :
                    [k \in 1..n |-> Lower(LastN(labels, n)[k])] \in PublicSuffixes }
    IN  IF hits = {} THEN 0 ELSE CHOOSE n \in hits : \A m \in hits : m <= n

\* tldextract.extract(url): the registered domain is the label before the
\* public suffix, the subdomain is what precedes it.
TldExtract(url) ==
    LET labels == Split(TldNetloc(url), DOT)
        rest   == Len(labels) - SuffixLen(labels)
    IN  [ domain    |-> IF rest >= 1 THEN labels[rest] ELSE <<>>,
          subdomain |-> IF rest >= 2 THEN Join(SubSeq(labels, 1, rest - 1), DOT)
                        ELSE <<>> ]

-----------------------------------------------------------------------------
(* CorrelationEngine._check_homepage_match                                 *)

\* path_parts = [p for p in parsed.path.split("/") if p]
PathParts(homepage) ==
    SelectSeq(Split(UrlPath(homepage), SLASH), LAMBDA p : p # <<>>)

\* The body of the GIT_SUBDOMAINS branch, once (subdomain, domain) matched.
SubdomainForgeMatch(flathub_prefix, path_parts, flathub_parts) ==
    LET expected_prefix == Split(flathub_prefix, DOT)
    IN  \/ /\ path_parts # <<>>
           /\ Len(flathub_parts) >= 3
           /\ Prefix(flathub_parts, Len(expected_prefix)) = expected_prefix
           /\ Len(flathub_parts) > Len(expected_prefix)
           /\ flathub_parts[Len(expected_prefix) + 1] = Lower(path_parts[1])
        \/ Join(Prefix(flathub_parts, 2), DOT) = flathub_prefix

\* The GIT_PLATFORMS branch with the prefix test on the whole identifier
\* instead of its first two parts.
PlatformForgeMatch_ExactPrefix(flathub_prefix, path_parts, flathub_parts) ==
    LET expected_prefix == Split(flathub_prefix, DOT)
    IN  \/ /\ path_parts # <<>>
           /\ Len(flathub_parts) >= 3
           /\ Prefix(flathub_parts, Len(expected_prefix)) = expected_prefix
           /\ Len(flathub_parts) > Len(expected_prefix)
           /\ flathub_parts[Len(expected_prefix) + 1] = Lower(path_parts[1])
        \/ Join(flathub_parts, DOT) = flathub_prefix

\* The body of the GIT_PLATFORMS branch, once the domain matched.
PlatformForgeMatch(flathub_prefix, path_parts, flathub_parts) ==
    LET expected_prefix == Split(flathub_prefix, DOT)
    IN  \/ /\ path_parts # <<>>
           /\ Len(flathub_parts) >= 3
           /\ Prefix(flathub_parts, Len(expected_prefix)) = expected_prefix
           /\ Len(flathub_parts) > Len(expected_prefix)
           /\ flathub_parts[Len(expected_prefix) + 1] = Lower(path_parts[1])
        \/ Join(Prefix(flathub_parts, 2), DOT) = flathub_prefix

\* Standard domain matching without the exclusion of "www": any subdomain
\* found in flathub_parts[:-1] matches.
StandardDomainMatch_AnySubdomain(domain, subdomain, flathub_parts) ==
    \/ InList(domain, AllButLast(flathub_parts))
    \/ /\ subdomain # <<>>
       /\ InList(subdomain, AllButLast(flathub_parts))

\* Standard domain matching: the domain, or a subdomain other than "www",
\* is one of flathub_parts[:-1].
StandardDomainMatch(domain, subdomain, flathub_parts) ==
    \/ InList(domain, AllButLast(flathub_parts))
    \/ /\ subdomain # <<>>
       /\ subdomain # S_www
       /\ InList(subdomain, AllButLast(flathub_parts))

\* The positions of GIT_SUBDOMAINS whose (subdomain, domain) is the homepage's.
SubdomainHits(subdomain, domain) ==
    { k \in 1..Len(GIT_SUBDOMAINS) :
        subdomain = GIT_SUBDOMAINS[k].sub /\ domain = GIT_SUBDOMAINS[k].dom }

\* _check_homepage_match falling through to the standard domain matching
\* when the forge test fails.
_check_homepage_match_FallThrough(homepage, flathub_parts) ==
    IF homepage = <<>> THEN FALSE
    ELSE IF UrlparseRaises(homepage) THEN FALSE
    ELSE
        LET ext        == TldExtract(homepage)
            path_parts == PathParts(homepage)
            domain     == Lower(ext.domain)
            subdomain  == IF ext.subdomain # <<>> THEN Lower(ext.subdomain) ELSE <<>>
            hits       == SubdomainHits(subdomain, domain)
        IN  \/ /\ hits # {}
               /\ SubdomainForgeMatch(
                      GIT_SUBDOMAINS[CHOOSE k \in hits : \A m \in hits : k <= m].prefix,
                      path_parts, flathub_parts)
            \/ /\ domain \in DOMAIN GIT_PLATFORMS
               /\ PlatformForgeMatch(GIT_PLATFORMS[domain], path_parts, flathub_parts)
            \/ StandardDomainMatch(domain, subdomain, flathub_parts)

\* _check_homepage_match without the lower() of the domain and subdomain.
_check_homepage_match_NoLower(homepage, flathub_parts) ==
    IF homepage = <<>> THEN FALSE
    ELSE IF UrlparseRaises(homepage) THEN FALSE
    ELSE
        LET ext        == TldExtract(homepage)
            path_parts == PathParts(homepage)
            domain     == ext.domain
            subdomain  == ext.subdomain
            hits       == SubdomainHits(subdomain, domain)
        IN  IF hits # {}
            THEN SubdomainForgeMatch(
                     GIT_SUBDOMAINS[CHOOSE k \in hits : \A m \in hits : k <= m].prefix,
                     path_parts, flathub_parts)
            ELSE IF domain \in DOMAIN GIT_PLATFORMS
            THEN PlatformForgeMatch(GIT_PLATFORMS[domain], path_parts, flathub_parts)
            ELSE StandardDomainMatch(domain, subdomain, flathub_parts)

_check_homepage_match(homepage, flathub_parts) ==
    IF homepage = <<>> THEN FALSE
    ELSE IF UrlparseRaises(homepage) THEN FALSE
    ELSE
        LET ext        == TldExtract(homepage)
            path_parts == PathParts(homepage)
            domain     == Lower(ext.domain)
            subdomain  == IF ext.subdomain # <<>> THEN Lower(ext.subdomain) ELSE <<>>
            hits       == SubdomainHits(subdomain, domain)
        IN  IF hits # {}
            THEN SubdomainForgeMatch(
                     GIT_SUBDOMAINS[CHOOSE k \in hits : \A m \in hits : k <= m].prefix,
                     path_parts, flathub_parts)
            ELSE IF domain \in DOMAIN GIT_PLATFORMS
            THEN PlatformForgeMatch(GIT_PLATFORMS[domain], path_parts, flathub_parts)
            ELSE StandardDomainMatch(domain, subdomain, flathub_parts)

\* flathub_parts = flathub_id.lower().split(".")
FlathubParts(flathub_id) == Split(Lower(flathub_id), DOT)

\* flathub_name = flathub_parts[-1]
FlathubName(flathub_id) == FlathubParts(flathub_id)[Len(FlathubParts(flathub_id))]

-----------------------------------------------------------------------------
(* The inputs considered: identifiers, homepages and package names.        *)

\* "org.mozilla.firefox"
Id_firefox ==
    <<111, 114, 103, 46, 109, 111, 122, 105, 108, 108, 97, 46, 102, 105, 114, 101, 102, 111, 120>>

\* "io.github.alice.todoapp"
Id_alice ==
    <<105, 111, 46, 103, 105, 116, 104, 117, 98, 46, 97, 108, 105, 99, 101, 46, 116, 111, 100, 111, 97, 112, 112>>

\* "io.github.bob.todoapp"
Id_bob ==
    <<105, 111, 46, 103, 105, 116, 104, 117, 98, 46, 98, 111, 98, 46, 116, 111, 100, 111, 97, 112, 112>>

\* "com.example.App"
Id_App ==
    <<99, 111, 109, 46, 101, 120, 97, 109, 112, 108, 101, 46, 65, 112, 112>>

\* "net.sourceforge.oldtool"
Id_oldtool ==
    <<110, 101, 116, 46, 115, 111, 117, 114, 99, 101, 102, 111, 114, 103, 101, 46, 111, 108, 100, 116, 111, 111, 108>>

\* "com.github.foo.bar"
Id_foobar ==
    <<99, 111, 109, 46, 103, 105, 116, 104, 117, 98, 46, 102, 111, 111, 46, 98, 97, 114>>

\* "io.github"
Id_io_github ==
    <<105, 111, 46, 103, 105, 116, 104, 117, 98>>

\* "org.gnome.alice.todoapp"
Id_gnome ==
    <<111, 114, 103, 46, 103, 110, 111, 109, 101, 46, 97, 108, 105, 99, 101, 46, 116, 111, 100, 111, 97, 112, 112>>

\* "www.alice.todoapp"
Id_www ==
    <<119, 119, 119, 46, 97, 108, 105, 99, 101, 46, 116, 111, 100, 111, 97, 112, 112>>

\* ".firefox"
Id_dotfirefox ==
    <<46, 102, 105, 114, 101, 102, 111, 120>>

\* "firefox."
Id_firefoxdot ==
    <<102, 105, 114, 101, 102, 111, 120, 46>>

\* "firefox"
Id_bare ==
    <<102, 105, 114, 101, 102, 111, 120>>

\* "org..firefox"
Id_gap ==
    <<111, 114, 103, 46, 46, 102, 105, 114, 101, 102, 111, 120>>

\* "https://mozilla.org"
Hp_mozilla ==
    <<104, 116, 116, 112, 115, 58, 47, 47, 109, 111, 122, 105, 108, 108, 97, 46, 111, 114, 103>>

\* "https://www.mozilla.org/firefox"
Hp_www_mozilla ==
    <<104, 116, 116, 112, 115, 58, 47, 47, 119, 119, 119, 46, 109, 111, 122, 105, 108, 108, 97, 46, 111, 114, 103, 47, 102, 105, 114, 101, 102, 111, 120>>

\* "https://github.com/alice/todoapp"
Hp_gh_alice ==
    <<104, 116, 116, 112, 115, 58, 47, 47, 103, 105, 116, 104, 117, 98, 46, 99, 111, 109, 47, 97, 108, 105, 99, 101, 47, 116, 111, 100, 111, 97, 112, 112>>

\* "https://GitHub.com/Alice/todoapp"
Hp_gh_Alice ==
    <<104, 116, 116, 112, 115, 58, 47, 47, 71, 105, 116, 72, 117, 98, 46, 99, 111, 109, 47, 65, 108, 105, 99, 101, 47, 116, 111, 100, 111, 97, 112, 112>>

\* "https://github.com"
Hp_gh_root ==
    <<104, 116, 116, 112, 115, 58, 47, 47, 103, 105, 116, 104, 117, 98, 46, 99, 111, 109>>

\* "https://example.com/unrelated"
Hp_example ==
    <<104, 116, 116, 112, 115, 58, 47, 47, 101, 120, 97, 109, 112, 108, 101, 46, 99, 111, 109, 47, 117, 110, 114, 101, 108, 97, 116, 101, 100>>

\* "https://sourceforge.net/projects/oldtool"
Hp_sf_oldtool ==
    <<104, 116, 116, 112, 115, 58, 47, 47, 115, 111, 117, 114, 99, 101, 102, 111, 114, 103, 101, 46, 110, 101, 116, 47, 112, 114, 111, 106, 101, 99, 116, 115, 47, 111, 108, 100, 116, 111, 111, 108>>

\* "https://github.com/foo/bar"
Hp_gh_foo ==
    <<104, 116, 116, 112, 115, 58, 47, 47, 103, 105, 116, 104, 117, 98, 46, 99, 111, 109, 47, 102, 111, 111, 47, 98, 97, 114>>

\* "https://gitlab.gnome.org/alice/todoapp"
Hp_gnome ==
    <<104, 116, 116, 112, 115, 58, 47, 47, 103, 105, 116, 108, 97, 98, 46, 103, 110, 111, 109, 101, 46, 111, 114, 103, 47, 97, 108, 105, 99, 101, 47, 116, 111, 100, 111, 97, 112, 112>>

\* "https://www.alice.co.uk"
Hp_www_alice ==
    <<104, 116, 116, 112, 115, 58, 47, 47, 119, 119, 119, 46, 97, 108, 105, 99, 101, 46, 99, 111, 46, 117, 107>>

\* "github.com/alice/todoapp"
Hp_bare_gh ==
    <<103, 105, 116, 104, 117, 98, 46, 99, 111, 109, 47, 97, 108, 105, 99, 101, 47, 116, 111, 100, 111, 97, 112, 112>>

\* "http://[mozilla.org"
Hp_bracket ==
    <<104, 116, 116, 112, 58, 47, 47, 91, 109, 111, 122, 105, 108, 108, 97, 46, 111, 114, 103>>

\* "https://co.uk"
Hp_suffix ==
    <<104, 116, 116, 112, 115, 58, 47, 47, 99, 111, 46, 117, 107>>

\* "https://firefox.com"
Hp_firefox ==
    <<104, 116, 116, 112, 115, 58, 47, 47, 102, 105, 114, 101, 102, 111, 120, 46, 99, 111, 109>>

\* "https://alice.example.com/todoapp"
Hp_sub_alice ==
    <<104, 116, 116, 112, 115, 58, 47, 47, 97, 108, 105, 99, 101, 46, 101, 120, 97, 109, 112, 108, 101, 46, 99, 111, 109, 47, 116, 111, 100, 111, 97, 112, 112>>

\* "firefox"
N_firefox ==
    <<102, 105, 114, 101, 102, 111, 120>>

\* "todoapp"
N_todoapp ==
    <<116, 111, 100, 111, 97, 112, 112>>

\* "todoapp-alt"
N_todoapp_alt ==
    <<116, 111, 100, 111, 97, 112, 112, 45, 97, 108, 116>>

\* "app"
N_app ==
    <<97, 112, 112>>

\* "App"
N_App ==
    <<65, 112, 112>>

\* "exampleapp"
N_exampleapp ==
    <<101, 120, 97, 109, 112, 108, 101, 97, 112, 112>>

\* "oldtool"
N_oldtool ==
    <<111, 108, 100, 116, 111, 111, 108>>

\* "Todoapp"
N_Todoapp ==
    <<84, 111, 100, 111, 97, 112, 112>>

\* ""
Hp_none == <<>>

AllIds ==
    { Id_firefox, Id_alice, Id_bob, Id_App, Id_oldtool, Id_foobar, Id_io_github,
      Id_gnome, Id_www, Id_dotfirefox, Id_firefoxdot, Id_bare, Id_gap }

AllHomepages ==
    { Hp_none, Hp_mozilla, Hp_www_mozilla, Hp_gh_alice, Hp_gh_Alice, Hp_gh_root,
      Hp_example, Hp_sf_oldtool, Hp_gh_foo, Hp_gnome, Hp_www_alice, Hp_bare_gh,
      Hp_bracket, Hp_suffix, Hp_firefox, Hp_sub_alice }

-----------------------------------------------------------------------------
(* One call of _check_homepage_match, as made by _find_best_match on the   *)
(* parts of an identifier that passed the length test of correlate.        *)

HpInit ==
    /\ hp_pc = "call"
    /\ hp_homepage \in AllHomepages
    /\ hp_flathub_id \in { f \in AllIds : Len(FlathubParts(f)) >= 2 }
    /\ hp_result = FALSE

CheckHomepage ==
    /\ hp_pc = "call"
    /\ hp_result' = _check_homepage_match(hp_homepage, FlathubParts(hp_flathub_id))
    /\ hp_pc' = "return"
    /\ UNCHANGED <<hp_homepage, hp_flathub_id>>

-----------------------------------------------------------------------------
(* CorrelationEngine._find_best_match                                      *)

\* The pname loop without the homepage verification: every candidate at 0.7.
PnameCandidates_NoHomepage(flathub_parts, flathub_name, index, matched_attrs) ==
    IF flathub_name \in DOMAIN index
    THEN LET pkgs == SelectSeq(index[flathub_name], LAMBDA p : p.attr \notin matched_attrs)
         IN  [k \in 1..Len(pkgs) |->
                 [pkg |-> pkgs[k], confidence |-> 70,
                  reason |-> <<"pname '", flathub_name, "' match">>]]
    ELSE <<>>

\* The candidates of the pname loop: the unmatched packages indexed under
\* flathub_name, at 0.95 with a homepage match and at 0.7 without.
PnameCandidates(flathub_parts, flathub_name, index, matched_attrs) ==
    IF flathub_name \in DOMAIN index
    THEN LET pkgs == SelectSeq(index[flathub_name], LAMBDA p : p.attr \notin matched_attrs)
         IN  [k \in 1..Len(pkgs) |->
                 IF _check_homepage_match(pkgs[k].homepage, flathub_parts)
                 THEN [pkg |-> pkgs[k], confidence |-> 95,
                       reason |-> <<"pname '", flathub_name, "' + homepage match">>]
                 ELSE [pkg |-> pkgs[k], confidence |-> 70,
                       reason |-> <<"pname '", flathub_name, "' match">>]]
    ELSE <<>>

\* The attr loop without the test "pkg.pname.lower() != flathub_name": every
\* attr match without a homepage match is a candidate at 0.6.
AttrCandidates_NoPnameTest(flathub_parts, flathub_name, packages, matched_attrs) ==
    LET pkgs == SelectSeq(packages, LAMBDA p :
                    /\ p.attr \notin matched_attrs
                    /\ Lower(p.attr) = flathub_name)
    IN  [k \in 1..Len(pkgs) |->
            IF _check_homepage_match(pkgs[k].homepage, flathub_parts)
            THEN [pkg |-> pkgs[k], confidence |-> 90,
                  reason |-> <<"attr '", flathub_name, "' + homepage match">>]
            ELSE [pkg |-> pkgs[k], confidence |-> 60,
                  reason |-> <<"attr '", flathub_name, "' match">>]]

\* The candidates of the attr loop: the unmatched packages whose attr.lower()
\* is flathub_name, at 0.9 with a homepage match, else at 0.6 unless the
\* pname matches as well.
AttrCandidates(flathub_parts, flathub_name, packages, matched_attrs) ==
    LET pkgs == SelectSeq(packages, LAMBDA p :
                    /\ p.attr \notin matched_attrs
                    /\ Lower(p.attr) = flathub_name
                    /\ \/ _check_homepage_match(p.homepage, flathub_parts)
                       \/ Lower(p.pname) # flathub_name)
    IN  [k \in 1..Len(pkgs) |->
            IF _check_homepage_match(pkgs[k].homepage, flathub_parts)
            THEN [pkg |-> pkgs[k], confidence |-> 90,
                  reason |-> <<"attr '", flathub_name, "' + homepage match">>]
            ELSE [pkg |-> pkgs[k], confidence |-> 60,
                  reason |-> <<"attr '", flathub_name, "' match">>]]

\* The list candidates as it stands before the final sort.
Candidates(flathub_parts, flathub_name, index, packages, matched_attrs) ==
    PnameCandidates(flathub_parts, flathub_name, index, matched_attrs)
    \o AttrCandidates(flathub_parts, flathub_name, packages, matched_attrs)

\* candidates.sort(key=lambda x: -x[1]): list.sort is stable, so the result
\* is that of inserting each element after the elements it does not precede.
RECURSIVE SortCandidates(_)
SortCandidates(c) ==
    IF c = <<>> THEN <<>>
    ELSE LET done == SortCandidates(AllButLast(c))
             x    == c[Len(c)]
             keep == Cardinality({k \in 1..Len(done) : done[k].confidence >= x.confidence})
         IN  SubSeq(done, 1, keep) \o <<x>> \o SubSeq(done, keep + 1, Len(done))

\* The return value after a sort that is not stable: among the candidates of
\* the highest confidence, the one generated last.
BestCandidate_LastOfBest(candidates) ==
    IF candidates # <<>>
    THEN <<SortCandidates(candidates)[
               Cardinality({k \in 1..Len(candidates) :
                               candidates[k].confidence
                                   = SortCandidates(candidates)[1].confidence})]>>
    ELSE <<>>

\* The return value without "candidates.sort": the first candidate found.
BestCandidate_Unsorted(candidates) ==
    IF candidates # <<>> THEN <<candidates[1]>> ELSE <<>>

\* "if not candidates: return None", else the first candidate after the
\* sort; None is <<>> and a candidate c is <<c>>.
BestCandidate(candidates) ==
    IF candidates # <<>> THEN <<SortCandidates(candidates)[1]>> ELSE <<>>

\* _find_best_match without the exclusion of the packages already claimed.
_find_best_match_IgnoreClaims(flathub_parts, flathub_name, index, packages, matched_attrs) ==
    BestCandidate(Candidates(flathub_parts, flathub_name, index, packages, {}))

\* The return value of _find_best_match.
_find_best_match(flathub_parts, flathub_name, index, packages, matched_attrs) ==
    BestCandidate(Candidates(flathub_parts, flathub_name, index, packages, matched_attrs))

-----------------------------------------------------------------------------
(* CorrelationEngine.add_known_mapping and CorrelationEngine.correlate     *)

\* The position of key k among the items of a dict, 0 when absent.
KeyIndex(items, k) ==
    IF \E n \in 1..Len(items) : items[n].flathub_id = k
    THEN CHOOSE n \in 1..Len(items) : items[n].flathub_id = k
    ELSE 0

\* d[k] = v on a dict kept as its list of items: a present key keeps its
\* position, a new key goes last.
DictSet(items, k, v) ==
    IF KeyIndex(items, k) = 0
    THEN Append(items, [flathub_id |-> k, nixpkgs_attr |-> v])
    ELSE [items EXCEPT ![KeyIndex(items, k)].nixpkgs_attr = v]

\* The index built at the start of correlate: pname.lower() -> the packages
\* of that pname, in dict order.
BuildIndex(packages) ==
    [n \in {Lower(packages[k].pname) : k \in 1..Len(packages)} |->
        SelectSeq(packages, LAMBDA p : Lower(p.pname) = n)]

\* "if match:" and its body: the mapping built from the match is appended
\* with the confidence given, and the component and the package are marked
\* as matched.
RecordMatch(st, flathub_id, match, confidence) ==
    IF match = <<>> THEN st
    ELSE [ mappings |->
               Append(st.mappings,
                      [flathub_id      |-> flathub_id,
                       nixpkgs_attr    |-> match[1].pkg.attr,
                       nixpkgs_version |-> match[1].pkg.version,
                       confidence      |-> confidence,
                       match_reason    |-> match[1].reason]),
           matched_flathub_ids |-> st.matched_flathub_ids \cup {flathub_id},
           matched_nix_attrs   |-> st.matched_nix_attrs \cup {match[1].pkg.attr} ]

\* "confidence=confidence": the confidence of the match, 0 standing for no
\* match.
ConfidenceOf(match) == IF match = <<>> THEN 0 ELSE match[1].confidence

\* What Phase A does with the result of _find_best_match.
UseMatch(st, flathub_id, match) ==
    RecordMatch(st, flathub_id, match, ConfidenceOf(match))

\* The Phase A iteration with the confidence left at the default of
\* AppStreamMapping (1.0).
PhaseAIteration_DefaultConfidence(st, flathub_id, index, packages) ==
    IF Len(FlathubParts(flathub_id)) < 2 THEN st
    ELSE RecordMatch(st, flathub_id,
                     _find_best_match(FlathubParts(flathub_id), FlathubName(flathub_id),
                                      index, packages, st.matched_nix_attrs),
                     100)

\* The Phase A iteration without "if len(flathub_parts) < 2: continue".
PhaseAIteration_NoLengthTest(st, flathub_id, index, packages) ==
    UseMatch(st, flathub_id,
             _find_best_match(FlathubParts(flathub_id), FlathubName(flathub_id),
                              index, packages, st.matched_nix_attrs))

\* One iteration of the Phase A loop, for the component flathub_id.
PhaseAIteration(st, flathub_id, index, packages) ==
    IF Len(FlathubParts(flathub_id)) < 2 THEN st
    ELSE UseMatch(st, flathub_id,
                  _find_best_match(FlathubParts(flathub_id), FlathubName(flathub_id),
                                   index, packages, st.matched_nix_attrs))

\* The first position of mappings that holds flathub_id, 0 for None.
ExistingIdx(maps, flathub_id) ==
    IF \E n \in 1..Len(maps) : maps[n].flathub_id = flathub_id
    THEN CHOOSE n \in 1..Len(maps) :
            /\ maps[n].flathub_id = flathub_id
            /\ \A m \in 1..(n - 1) : maps[m].flathub_id # flathub_id
    ELSE 0

\* nixpkgs_packages[attr]
PackageOf(packages, attr) ==
    packages[CHOOSE k \in 1..Len(packages) : packages[k].attr = attr]

\* new_mapping: the AppStreamMapping that the known mapping item produces.
OverrideMapping(item, packages) ==
    [flathub_id      |-> item.flathub_id,
     nixpkgs_attr    |-> item.nixpkgs_attr,
     nixpkgs_version |-> PackageOf(packages, item.nixpkgs_attr).version,
     confidence      |-> 100,
     match_reason    |-> <<"override mapping">>]

\* The Phase B iteration without the search for an existing mapping: the
\* override is always appended.
PhaseBIteration_AlwaysAppend(st, item, components, packages) ==
    IF \/ ~InList(item.flathub_id, components)
       \/ \A k \in 1..Len(packages) : packages[k].attr # item.nixpkgs_attr
    THEN st
    ELSE [ mappings |-> Append(st.mappings, OverrideMapping(item, packages)),
           matched_flathub_ids |-> st.matched_flathub_ids \cup {item.flathub_id},
           matched_nix_attrs |-> st.matched_nix_attrs \cup {item.nixpkgs_attr} ]

\* The Phase B iteration that leaves an existing mapping in place and only
\* adds the missing ones.
PhaseBIteration_KeepExisting(st, item, components, packages) ==
    IF \/ ~InList(item.flathub_id, components)
       \/ \A k \in 1..Len(packages) : packages[k].attr # item.nixpkgs_attr
       \/ ExistingIdx(st.mappings, item.flathub_id) # 0
    THEN st
    ELSE [ mappings |-> Append(st.mappings, OverrideMapping(item, packages)),
           matched_flathub_ids |-> st.matched_flathub_ids \cup {item.flathub_id},
           matched_nix_attrs |-> st.matched_nix_attrs \cup {item.nixpkgs_attr} ]

\* The Phase B iteration that marks the target attribute as matched before
\* it tests whether the rule can be applied.
PhaseBIteration_ClaimFirst(st, item, components, packages) ==
    IF \/ ~InList(item.flathub_id, components)
       \/ \A k \in 1..Len(packages) : packages[k].attr # item.nixpkgs_attr
    THEN [ mappings |-> st.mappings,
           matched_flathub_ids |-> st.matched_flathub_ids,
           matched_nix_attrs |-> st.matched_nix_attrs \cup {item.nixpkgs_attr} ]
    ELSE IF ExistingIdx(st.mappings, item.flathub_id) # 0
    THEN [ mappings |-> [st.mappings EXCEPT ![ExistingIdx(st.mappings, item.flathub_id)]
                                                = OverrideMapping(item, packages)],
           matched_flathub_ids |-> st.matched_flathub_ids,
           matched_nix_attrs |->
               (IF st.mappings[ExistingIdx(st.mappings, item.flathub_id)].nixpkgs_attr
                      # item.nixpkgs_attr
                THEN st.matched_nix_attrs
                         \ {st.mappings[ExistingIdx(st.mappings, item.flathub_id)].nixpkgs_attr}
                ELSE st.matched_nix_attrs) \cup {item.nixpkgs_attr} ]
    ELSE [ mappings |-> Append(st.mappings, OverrideMapping(item, packages)),
           matched_flathub_ids |-> st.matched_flathub_ids \cup {item.flathub_id},
           matched_nix_attrs |-> st.matched_nix_attrs \cup {item.nixpkgs_attr} ]

\* The first position of maps that holds flathub_id or nixpkgs_attr, 0 for
\* None.
HolderIdx(maps, item) ==
    IF \E n \in 1..Len(maps) :
           maps[n].flathub_id = item.flathub_id \/ maps[n].nixpkgs_attr = item.nixpkgs_attr
    THEN CHOOSE n \in 1..Len(maps) :
            /\ maps[n].flathub_id = item.flathub_id \/ maps[n].nixpkgs_attr = item.nixpkgs_attr
            /\ \A m \in 1..(n - 1) :
                  /\ maps[m].flathub_id # item.flathub_id
                  /\ maps[m].nixpkgs_attr # item.nixpkgs_attr
    ELSE 0

\* The Phase B iteration whose search for the existing mapping also stops at
\* a mapping that holds the target attribute: the override takes its place.
PhaseBIteration_ReplaceHolder(st, item, components, packages) ==
    IF \/ ~InList(item.flathub_id, components)
       \/ \A k \in 1..Len(packages) : packages[k].attr # item.nixpkgs_attr
    THEN st
    ELSE IF HolderIdx(st.mappings, item) # 0
    THEN [ mappings |-> [st.mappings EXCEPT ![HolderIdx(st.mappings, item)]
                                                = OverrideMapping(item, packages)],
           matched_flathub_ids |-> st.matched_flathub_ids,
           matched_nix_attrs |->
               (IF st.mappings[HolderIdx(st.mappings, item)].nixpkgs_attr
                      # item.nixpkgs_attr
                THEN st.matched_nix_attrs
                         \ {st.mappings[HolderIdx(st.mappings, item)].nixpkgs_attr}
                ELSE st.matched_nix_attrs) \cup {item.nixpkgs_attr} ]
    ELSE [ mappings |-> Append(st.mappings, OverrideMapping(item, packages)),
           matched_flathub_ids |-> st.matched_flathub_ids \cup {item.flathub_id},
           matched_nix_attrs |-> st.matched_nix_attrs \cup {item.nixpkgs_attr} ]

\* The Phase B iteration without the test "flathub_id not in
\* flathub_components": a rule is skipped only when its package is missing.
PhaseBIteration_AnyIdentifier(st, item, components, packages) ==
    IF \A k \in 1..Len(packages) : packages[k].attr # item.nixpkgs_attr
    THEN st
    ELSE IF ExistingIdx(st.mappings, item.flathub_id) # 0
    THEN [ mappings |-> [st.mappings EXCEPT ![ExistingIdx(st.mappings, item.flathub_id)]
                                                = OverrideMapping(item, packages)],
           matched_flathub_ids |-> st.matched_flathub_ids,
           matched_nix_attrs |->
               (IF st.mappings[ExistingIdx(st.mappings, item.flathub_id)].nixpkgs_attr
                      # item.nixpkgs_attr
                THEN st.matched_nix_attrs
                         \ {st.mappings[ExistingIdx(st.mappings, item.flathub_id)].nixpkgs_attr}
                ELSE st.matched_nix_attrs) \cup {item.nixpkgs_attr} ]
    ELSE [ mappings |-> Append(st.mappings, OverrideMapping(item, packages)),
           matched_flathub_ids |-> st.matched_flathub_ids \cup {item.flathub_id},
           matched_nix_attrs |-> st.matched_nix_attrs \cup {item.nixpkgs_attr} ]

\* The Phase B iteration without "matched_nix_attrs.discard(old_attr)".
PhaseBIteration_NoDiscard(st, item, components, packages) ==
    IF \/ ~InList(item.flathub_id, components)
       \/ \A k \in 1..Len(packages) : packages[k].attr # item.nixpkgs_attr
    THEN st
    ELSE IF ExistingIdx(st.mappings, item.flathub_id) # 0
    THEN [ mappings |-> [st.mappings EXCEPT ![ExistingIdx(st.mappings, item.flathub_id)]
                                                = OverrideMapping(item, packages)],
           matched_flathub_ids |-> st.matched_flathub_ids,
           matched_nix_attrs |-> st.matched_nix_attrs \cup {item.nixpkgs_attr} ]
    ELSE [ mappings |-> Append(st.mappings, OverrideMapping(item, packages)),
           matched_flathub_ids |-> st.matched_flathub_ids \cup {item.flathub_id},
           matched_nix_attrs |-> st.matched_nix_attrs \cup {item.nixpkgs_attr} ]

\* One iteration of the Phase B loop, for the known mapping item.
PhaseBIteration(st, item, components, packages) ==
    LET flathub_id   == item.flathub_id
        nixpkgs_attr == item.nixpkgs_attr
        existing_idx == ExistingIdx(st.mappings, flathub_id)
        new_mapping  == OverrideMapping(item, packages)
    IN  IF \/ ~InList(flathub_id, components)
           \/ \A k \in 1..Len(packages) : packages[k].attr # nixpkgs_attr
        THEN st
        ELSE IF existing_idx # 0
        THEN [ mappings |-> [st.mappings EXCEPT ![existing_idx] = new_mapping],
               matched_flathub_ids |-> st.matched_flathub_ids,
               matched_nix_attrs |->
                   (IF st.mappings[existing_idx].nixpkgs_attr # nixpkgs_attr
                    THEN st.matched_nix_attrs \ {st.mappings[existing_idx].nixpkgs_attr}
                    ELSE st.matched_nix_attrs) \cup {nixpkgs_attr} ]
        ELSE [ mappings |-> Append(st.mappings, new_mapping),
               matched_flathub_ids |-> st.matched_flathub_ids \cup {flathub_id},
               matched_nix_attrs |-> st.matched_nix_attrs \cup {nixpkgs_attr} ]

\* The sort with the key -m.confidence alone.
RECURSIVE SortMappings_ByConfidence(_)
SortMappings_ByConfidence(m) ==
    IF m = <<>> THEN <<>>
    ELSE LET done == SortMappings_ByConfidence(AllButLast(m))
             x    == m[Len(m)]
             keep == Cardinality({k \in 1..Len(done) : done[k].confidence >= x.confidence})
         IN  SubSeq(done, 1, keep) \o <<x>> \o SubSeq(done, keep + 1, Len(done))

\* The sort key (-m.confidence, m.flathub_id) of x is at most that of y.
MappingKeyLeq(x, y) ==
    \/ x.confidence > y.confidence
    \/ /\ x.confidence = y.confidence
       /\ (x.flathub_id = y.flathub_id \/ StrLess(x.flathub_id, y.flathub_id))

\* mappings.sort(key=lambda m: (-m.confidence, m.flathub_id)), a stable sort.
RECURSIVE SortMappings(_)
SortMappings(m) ==
    IF m = <<>> THEN <<>>
    ELSE LET done == SortMappings(AllButLast(m))
             x    == m[Len(m)]
             keep == Cardinality({k \in 1..Len(done) : MappingKeyLeq(done[k], x)})
         IN  SubSeq(done, 1, keep) \o <<x>> \o SubSeq(done, keep + 1, Len(done))

-----------------------------------------------------------------------------
(* AppStreamGenerator.generate_report.                                     *)

\* No report has been generated.
NoReport == <<>>

\* The number of components scanned for "unmapped_popular", and the number
\* of entries kept.
PopularScanned == 200
PopularKept == 50

\* lst[:n]
Take(lst, n) == SubSeq(lst, 1, IF Len(lst) < n THEN Len(lst) ELSE n)

\* len(mappings) / len(flathub_components) * 100, kept as an exact fraction.
Percent(part, whole) == [num |-> part * 100, den |-> whole]

\* The entry of "mappings" for the mapping m (the display name of the
\* component is not part of the state).
ReportEntry(m) ==
    [flathub_id   |-> m.flathub_id,
     nixpkgs_attr |-> m.nixpkgs_attr,
     version      |-> m.nixpkgs_version,
     confidence   |-> m.confidence]

\* The identifier has no mapping in maps.
Unmapped(maps, flathub_id) == \A k \in 1..Len(maps) : maps[k].flathub_id # flathub_id

\* generate_report with the "medium" tier open at 0.6: 0.6 < m.confidence < 0.9.
generate_report_OpenMedium(maps, components) ==
    [ total_flathub_components |-> Len(components),
      total_mappings |-> Len(maps),
      coverage_percent |->
          IF components # <<>> THEN Percent(Len(maps), Len(components)) ELSE Percent(0, 1),
      by_confidence |->
          [ override |-> Cardinality({k \in 1..Len(maps) : maps[k].confidence = 100}),
            high     |-> Cardinality({k \in 1..Len(maps) :
                                         90 <= maps[k].confidence /\ maps[k].confidence < 100}),
            medium   |-> Cardinality({k \in 1..Len(maps) :
                                         60 < maps[k].confidence /\ maps[k].confidence < 90}),
            low      |-> Cardinality({k \in 1..Len(maps) : maps[k].confidence < 60}) ],
      mappings |-> [k \in 1..Len(maps) |-> ReportEntry(maps[k])],
      unmapped_popular |->
          Take(SelectSeq(Take(components, PopularScanned),
                         LAMBDA flathub_id : Unmapped(maps, flathub_id)),
               PopularKept) ]

\* The report dict of generate_report(mappings, flathub_components).
generate_report(maps, components) ==
    [ total_flathub_components |-> Len(components),
      total_mappings |-> Len(maps),
      coverage_percent |->
          IF components # <<>> THEN Percent(Len(maps), Len(components)) ELSE Percent(0, 1),
      by_confidence |->
          [ override |-> Cardinality({k \in 1..Len(maps) : maps[k].confidence = 100}),
            high     |-> Cardinality({k \in 1..Len(maps) :
                                         90 <= maps[k].confidence /\ maps[k].confidence < 100}),
            medium   |-> Cardinality({k \in 1..Len(maps) :
                                         60 <= maps[k].confidence /\ maps[k].confidence < 90}),
            low      |-> Cardinality({k \in 1..Len(maps) : maps[k].confidence < 60}) ],
      mappings |-> [k \in 1..Len(maps) |-> ReportEntry(maps[k])],
      unmapped_popular |->
          Take(SelectSeq(Take(components, PopularScanned),
                         LAMBDA flathub_id : Unmapped(maps, flathub_id)),
               PopularKept) ]

-----------------------------------------------------------------------------
(* AppStreamGenerator._transform_component, on the children of the         *)
(* component element: each child is its tag, its "type" attribute ("" when *)
(* it has none) and its text.                                              *)

\* "nixos."
S_nixos_dot ==
    <<110, 105, 120, 111, 115, 46>>

\* ".png"
S_png ==
    <<46, 112, 110, 103>>

\* "nixos.firefox"
N_nixos_firefox ==
    <<110, 105, 120, 111, 115, 46, 102, 105, 114, 101, 102, 111, 120>>

\* s.startswith(p)
StartsWith(s, p) == Len(s) >= Len(p) /\ SubSeq(s, 1, Len(p)) = p

\* pkg_attr: the attribute name, without a leading "nixos.".
PkgAttr(nixpkgs_attr) ==
    IF StartsWith(nixpkgs_attr, S_nixos_dot)
    THEN SubSeq(nixpkgs_attr, 6 + 1, Len(nixpkgs_attr))
    ELSE nixpkgs_attr

\* elem.find(tag): the position of the first child of that tag, 0 for None.
FindChild(children, tag) ==
    IF \E k \in 1..Len(children) : children[k].tag = tag
    THEN CHOOSE k \in 1..Len(children) :
            /\ children[k].tag = tag
            /\ \A m \in 1..(k - 1) : children[m].tag # tag
    ELSE 0

\* "if pkgname is None: pkgname = ET.SubElement(elem, 'pkgname')": a new
\* child is appended when there is none.
WithPkgname(children) ==
    IF FindChild(children, "pkgname") = 0
    THEN Append(children, [tag |-> "pkgname", type |-> "", text |-> <<>>])
    ELSE children

\* pkgname.text = text, on the first pkgname child.
SetPkgname(children, text) ==
    [children EXCEPT ![FindChild(children, "pkgname")].text = text]

\* "if releases is not None: elem.remove(releases)": the first releases
\* child is removed.
WithoutReleases(children) ==
    IF FindChild(children, "releases") = 0 THEN children
    ELSE SubSeq(children, 1, FindChild(children, "releases") - 1)
         \o SubSeq(children, FindChild(children, "releases") + 1, Len(children))

\* The loop over elem.findall("icon"): a cached icon with a text is pointed
\* to the local file of the component.
WithLocalIcons(children, id) ==
    [k \in 1..Len(children) |->
        IF /\ children[k].tag = "icon"
           /\ children[k].type = "cached"
           /\ children[k].text # <<>>
        THEN [children[k] EXCEPT !.text = id \o S_png]
        ELSE children[k]]

\* _transform_component that writes mapping.nixpkgs_attr as it is.
_transform_component_KeepPrefix(component, nixpkgs_attr) ==
    WithLocalIcons(WithoutReleases(SetPkgname(WithPkgname(component.children),
                                              nixpkgs_attr)),
                   component.id)

\* _transform_component: the children of the element returned.
_transform_component(component, nixpkgs_attr) ==
    WithLocalIcons(WithoutReleases(SetPkgname(WithPkgname(component.children),
                                              PkgAttr(nixpkgs_attr))),
                   component.id)

\* The children that a component element may have.
E_name == [tag |-> "name", type |-> "", text |-> N_firefox]
E_pkgname == [tag |-> "pkgname", type |-> "", text |-> N_oldtool]
E_releases == [tag |-> "releases", type |-> "", text |-> <<>>]
E_icon_cached == [tag |-> "icon", type |-> "cached", text |-> N_app]
E_icon_remote == [tag |-> "icon", type |-> "remote", text |-> N_app]
E_icon_empty == [tag |-> "icon", type |-> "cached", text |-> <<>>]

Elements == { E_name, E_pkgname, E_releases, E_icon_cached, E_icon_remote, E_icon_empty }

\* The longest list of children explored.
MaxChildren == 2

\* The attribute names a mapping may carry: "firefox", "nixos.firefox", "nixos.".
MappedAttrs == { N_firefox, N_nixos_firefox, S_nixos_dot }

TrIdle ==
    /\ tr_pc = "idle"
    /\ tr_component = [id |-> <<>>, children |-> <<>>]
    /\ tr_attr = <<>>
    /\ tr_result = <<>>

TrInit ==
    /\ tr_pc = "call"
    /\ tr_component \in [id : {Id_firefox, Id_App},
                          children : UNION { [1..k -> Elements] : k \in 0..MaxChildren }]
    /\ tr_attr \in MappedAttrs
    /\ tr_result = <<>>

TransformComponent ==
    /\ tr_pc = "call"
    /\ tr_result' = _transform_component(tr_component, tr_attr)
    /\ tr_pc' = "return"
    /\ UNCHANGED <<tr_component, tr_attr>>

-----------------------------------------------------------------------------
(* The inputs of correlate that are explored.                              *)

MaxComponents == 2
MaxPackages == 2
MaxOverrides == 2
MaxRuns == 2

P_firefox ==
    [attr |-> N_firefox, pname |-> N_firefox, version |-> "128.0", homepage |-> Hp_mozilla]
P_todoapp ==
    [attr |-> N_todoapp, pname |-> N_todoapp, version |-> "1.2", homepage |-> Hp_gh_alice]
P_todoapp_alt ==
    [attr |-> N_todoapp_alt, pname |-> N_Todoapp, version |-> "1.3", homepage |-> Hp_example]
P_app ==
    [attr |-> N_app, pname |-> N_todoapp, version |-> "0.9", homepage |-> Hp_none]
P_App ==
    [attr |-> N_App, pname |-> N_exampleapp, version |-> "2.0", homepage |-> Hp_example]
P_exampleapp ==
    [attr |-> N_exampleapp, pname |-> N_App, version |-> "2.1", homepage |-> Hp_none]
P_oldtool ==
    [attr |-> N_oldtool, pname |-> N_oldtool, version |-> "3.4", homepage |-> Hp_sf_oldtool]
P_Todoapp ==
    [attr |-> N_Todoapp, pname |-> N_Todoapp, version |-> "1.4", homepage |-> Hp_gh_Alice]

\* The components and packages of a batch run (cmd_generate, cmd_correlate).
ComponentIds == { Id_firefox, Id_alice, Id_bob, Id_App }
Packages == { P_firefox, P_todoapp, P_todoapp_alt, P_app }

\* The packages of a single-component run (cmd_match); its component is any
\* of AllIds.
MatchPackages ==
    { P_firefox, P_todoapp, P_todoapp_alt, P_app, P_App, P_exampleapp, P_oldtool,
      P_Todoapp }

\* The known mappings that may be added.
OverrideIds == { Id_App, Id_bare }
OverrideAttrs == { N_app, N_todoapp }

\* The lists of at most n distinct elements of S.
DistinctSeqs(S, n) ==
    { s \in UNION { [1..k -> S] : k \in 0..n } :
        \A a, b \in 1..Len(s) : a # b => s[a] # s[b] }

-----------------------------------------------------------------------------
(* The engine: construction, add_known_mapping, and correlate in steps.    *)

HpIdle ==
    /\ hp_pc = "idle"
    /\ hp_homepage = <<>>
    /\ hp_flathub_id = <<>>
    /\ hp_result = FALSE

\* The dicts of at most n packages of S: the keys (attr) are distinct.
PackageDicts(S, n) ==
    { s \in DistinctSeqs(S, n) : \A a, b \in 1..Len(s) : a # b => s[a].attr # s[b].attr }

\* CorrelationEngine.__init__: no known mapping, and nothing run yet.
EngineNew ==
    /\ _known_mappings = <<>>
    /\ pc = "idle"
    /\ pname_to_packages = <<>>
    /\ mappings = <<>>
    /\ matched_flathub_ids = {}
    /\ matched_nix_attrs = {}
    /\ idx = 0
    /\ returned = <<>>

\* A batch: the arguments that every call of correlate is given.
Init ==
    /\ flathub_components \in DistinctSeqs(ComponentIds, MaxComponents)
    /\ nixpkgs_packages \in PackageDicts(Packages, MaxPackages)
    /\ EngineNew
    /\ HpIdle
    /\ report = NoReport
    /\ TrIdle

add_known_mapping ==
    /\ pc = "idle"
    /\ \E flathub_id \in OverrideIds, nixpkgs_attr \in OverrideAttrs :
          /\ Len(DictSet(_known_mappings, flathub_id, nixpkgs_attr)) <= MaxOverrides
          /\ _known_mappings' = DictSet(_known_mappings, flathub_id, nixpkgs_attr)
    /\ UNCHANGED <<flathub_components, nixpkgs_packages, pc, pname_to_packages,
                   mappings, matched_flathub_ids, matched_nix_attrs, idx, returned>>

\* Where control goes when the Phase A loop is exhausted.
EnterPhaseB == IF _known_mappings # <<>> THEN <<"phaseB", 1>> ELSE <<"sort", 0>>

\* Where control goes once the index is built.
EnterPhaseA == IF flathub_components # <<>> THEN <<"phaseA", 1>> ELSE EnterPhaseB

\* The locals of correlate as one record.
Locals ==
    [ mappings |-> mappings,
      matched_flathub_ids |-> matched_flathub_ids,
      matched_nix_attrs |-> matched_nix_attrs ]

\* A call of correlate that keeps the claimed names of the call before.
CorrelateCall_KeepClaims ==
    /\ pc \in {"idle", "done"}
    /\ Len(returned) < MaxRuns
    /\ mappings' = <<>>
    /\ matched_flathub_ids' = {}
    /\ matched_nix_attrs' = matched_nix_attrs
    /\ pname_to_packages' = BuildIndex(nixpkgs_packages)
    /\ pc' = EnterPhaseA[1]
    /\ idx' = EnterPhaseA[2]
    /\ UNCHANGED <<flathub_components, nixpkgs_packages, _known_mappings, returned>>

\* A call of correlate: fresh locals and the pname index.
CorrelateCall ==
    /\ pc \in {"idle", "done"}
    /\ Len(returned) < MaxRuns
    /\ mappings' = <<>>
    /\ matched_flathub_ids' = {}
    /\ matched_nix_attrs' = {}
    /\ pname_to_packages' = BuildIndex(nixpkgs_packages)
    /\ pc' = EnterPhaseA[1]
    /\ idx' = EnterPhaseA[2]
    /\ UNCHANGED <<flathub_components, nixpkgs_packages, _known_mappings, returned>>

\* One iteration of "for flathub_id, _component in flathub_components.items()".
PhaseAStep ==
    /\ pc = "phaseA"
    /\ \E st \in {PhaseAIteration(Locals, flathub_components[idx],
                                   pname_to_packages, nixpkgs_packages)} :
          /\ mappings' = st.mappings
          /\ matched_flathub_ids' = st.matched_flathub_ids
          /\ matched_nix_attrs' = st.matched_nix_attrs
    /\ IF idx < Len(flathub_components)
       THEN pc' = "phaseA" /\ idx' = idx + 1
       ELSE pc' = EnterPhaseB[1] /\ idx' = EnterPhaseB[2]
    /\ UNCHANGED <<flathub_components, nixpkgs_packages, _known_mappings,
                   pname_to_packages, returned>>

\* One iteration of "for flathub_id, nixpkgs_attr in self._known_mappings.items()".
PhaseBStep ==
    /\ pc = "phaseB"
    /\ \E st \in {PhaseBIteration(Locals, _known_mappings[idx],
                                   flathub_components, nixpkgs_packages)} :
          /\ mappings' = st.mappings
          /\ matched_flathub_ids' = st.matched_flathub_ids
          /\ matched_nix_attrs' = st.matched_nix_attrs
    /\ IF idx < Len(_known_mappings)
       THEN pc' = "phaseB" /\ idx' = idx + 1
       ELSE pc' = "sort" /\ idx' = 0
    /\ UNCHANGED <<flathub_components, nixpkgs_packages, _known_mappings,
                   pname_to_packages, returned>>

\* The final sort and the return.
SortAndReturn ==
    /\ pc = "sort"
    /\ mappings' = SortMappings(mappings)
    /\ returned' = Append(returned, SortMappings(mappings))
    /\ pc' = "done"
    /\ UNCHANGED <<flathub_components, nixpkgs_packages, _known_mappings,
                   pname_to_packages, matched_flathub_ids, matched_nix_attrs, idx>>

\* The report on the list that correlate returned, the last step of
\* cmd_correlate and of the workflow of cmd_generate.
GenerateReport ==
    /\ pc = "done"
    /\ report' = generate_report(mappings, flathub_components)
    /\ pc' = "reported"
    /\ UNCHANGED <<flathub_components, nixpkgs_packages, _known_mappings,
                   pname_to_packages, mappings, matched_flathub_ids, matched_nix_attrs,
                   idx, returned>>

Next ==
    \/ add_known_mapping /\ UNCHANGED hp_vars /\ UNCHANGED report /\ UNCHANGED tr_vars
    \/ CorrelateCall /\ UNCHANGED hp_vars /\ UNCHANGED report /\ UNCHANGED tr_vars
    \/ PhaseAStep /\ UNCHANGED hp_vars /\ UNCHANGED report /\ UNCHANGED tr_vars
    \/ PhaseBStep /\ UNCHANGED hp_vars /\ UNCHANGED report /\ UNCHANGED tr_vars
    \/ SortAndReturn /\ UNCHANGED hp_vars /\ UNCHANGED report /\ UNCHANGED tr_vars
    \/ GenerateReport /\ UNCHANGED hp_vars /\ UNCHANGED tr_vars

Spec == Init /\ [][Next]_vars

\* cmd_match: correlate is given the dict of one component.
MatchInit ==
    /\ flathub_components \in { <<f>> : f \in AllIds }
    /\ nixpkgs_packages \in PackageDicts(MatchPackages, MaxPackages)
    /\ EngineNew
    /\ HpIdle
    /\ report = NoReport
    /\ TrIdle

MatchSpec == MatchInit /\ [][Next]_vars

\* "blank"
N_blank ==
    <<98, 108, 97, 110, 107>>

\* A package whose "pname" is the empty string in the package data
\* (pname=pkg_data.get("pname", attr) takes it as it is).
P_blank ==
    [attr |-> N_blank, pname |-> <<>>, version |-> "0.1", homepage |-> Hp_none]

\* Single-component runs on identifiers with a leading, a trailing or no
\* dot, with package data that holds the package without a short name.
BlankIds == { Id_firefox, Id_dotfirefox, Id_firefoxdot, Id_bare }
BlankPackages == { P_firefox, P_app, P_blank }

BlankInit ==
    /\ flathub_components \in { <<f>> : f \in BlankIds }
    /\ nixpkgs_packages \in PackageDicts(BlankPackages, MaxPackages)
    /\ EngineNew
    /\ HpIdle
    /\ report = NoReport
    /\ TrIdle

BlankSpec == BlankInit /\ [][Next]_vars

\* The components, packages and rules of a batch whose engine has loaded a
\* mappings file (load_known_mappings) before anything else.
RuleIds == { Id_App, Id_bob }
RulePackages == { P_app, P_todoapp, P_todoapp_alt, P_firefox }
RuleAttrs == { N_app, N_todoapp, N_firefox }

\* The dicts of at most n rules: the keys (flathub_id) are distinct.
RuleDicts(n) ==
    { s \in DistinctSeqs([flathub_id : RuleIds, nixpkgs_attr : RuleAttrs], n) :
        \A a, b \in 1..Len(s) : a # b => s[a].flathub_id # s[b].flathub_id }

\* A batch on an engine whose known mappings were loaded from a file.
RulesInit ==
    /\ flathub_components \in DistinctSeqs(RuleIds, MaxComponents)
    /\ nixpkgs_packages \in PackageDicts(RulePackages, MaxPackages)
    /\ _known_mappings \in RuleDicts(MaxOverrides)
    /\ pc = "idle"
    /\ pname_to_packages = <<>>
    /\ mappings = <<>>
    /\ matched_flathub_ids = {}
    /\ matched_nix_attrs = {}
    /\ idx = 0
    /\ returned = <<>>
    /\ HpIdle
    /\ report = NoReport
    /\ TrIdle

RulesSpec == RulesInit /\ [][Next]_vars

-----------------------------------------------------------------------------
(* A single call of _check_homepage_match, explored on its own.            *)

EngineIdle ==
    /\ flathub_components = <<>>
    /\ nixpkgs_packages = <<>>
    /\ _known_mappings = <<>>
    /\ pc = "idle"
    /\ pname_to_packages = <<>>
    /\ mappings = <<>>
    /\ matched_flathub_ids = {}
    /\ matched_nix_attrs = {}
    /\ idx = 0
    /\ returned = <<>>

HomepageInit == HpInit /\ EngineIdle /\ report = NoReport /\ TrIdle

HomepageNext ==
    CheckHomepage /\ UNCHANGED engine_vars /\ UNCHANGED report /\ UNCHANGED tr_vars

HomepageSpec == HomepageInit /\ [][HomepageNext]_vars

-----------------------------------------------------------------------------
(* A single call of _transform_component, explored on its own.             *)

TransformInit == TrInit /\ EngineIdle /\ report = NoReport /\ HpIdle

TransformNext ==
    TransformComponent /\ UNCHANGED engine_vars /\ UNCHANGED report /\ UNCHANGED hp_vars

TransformSpec == TransformInit /\ [][TransformNext]_vars

-----------------------------------------------------------------------------
(* Properties of correlate.                                                *)

OverrideReason == <<"override mapping">>

\* The override rule item can be applied: both its sides are in the inputs.
ValidOverride(item) ==
    /\ InList(item.flathub_id, flathub_components)
    /\ \E k \in 1..Len(nixpkgs_packages) : nixpkgs_packages[k].attr = item.nixpkgs_attr

\* No two positions of the list m hold the same catalog identifier.
OnePerIdentifier(m) ==
    \A a, b \in 1..Len(m) : a # b => m[a].flathub_id # m[b].flathub_id

\* C1: the Mapping list holds at most one Mapping per catalog identifier,
\* after every step of Phase A and of Phase B and in every list returned.
C1_AtMostOnePerIdentifier ==
    /\ OnePerIdentifier(mappings)
    /\ \A r \in 1..Len(returned) : OnePerIdentifier(returned[r])

\* An override has replaced the automatic mapping of its identifier while
\* another mapping stands beside it.
C1_Witness ==
    /\ pc = "done"
    /\ Len(mappings) = 2
    /\ \E k \in 1..Len(_known_mappings) :
          /\ _known_mappings[k].flathub_id \in matched_flathub_ids
          /\ ValidOverride(_known_mappings[k])
          /\ _known_mappings[k].flathub_id = flathub_components[1]
          /\ _find_best_match(FlathubParts(_known_mappings[k].flathub_id),
                              FlathubName(_known_mappings[k].flathub_id),
                              pname_to_packages, nixpkgs_packages, {}) # <<>>

\* C2: in every state of a run, two distinct Mappings whose reason is not
\* "override mapping" have different registry attribute names.
C2_AutomaticAttrsDistinct ==
    \A a, b \in 1..Len(mappings) :
        /\ a # b
        /\ mappings[a].match_reason # OverrideReason
        /\ mappings[b].match_reason # OverrideReason
        => mappings[a].nixpkgs_attr # mappings[b].nixpkgs_attr

\* The second component was scored while the package that is the best match
\* of both was already claimed by the first, and got another package.
C2_Witness ==
    /\ Len(mappings) = 2
    /\ mappings[1].match_reason # OverrideReason
    /\ mappings[2].match_reason # OverrideReason
    /\ _find_best_match(FlathubParts(mappings[2].flathub_id),
                        FlathubName(mappings[2].flathub_id),
                        pname_to_packages, nixpkgs_packages, {})[1].pkg.attr
           = mappings[1].nixpkgs_attr

\* C3: once correlate has returned, every valid override rule has exactly
\* one Mapping for its identifier, with the rule's attribute name,
\* confidence 1.0 and reason "override mapping".
C3_OverrideSupremacy ==
    pc = "done" =>
        \A k \in 1..Len(_known_mappings) :
            ValidOverride(_known_mappings[k]) =>
                /\ Cardinality({n \in 1..Len(mappings) :
                        mappings[n].flathub_id = _known_mappings[k].flathub_id}) = 1
                /\ \A n \in 1..Len(mappings) :
                        mappings[n].flathub_id = _known_mappings[k].flathub_id =>
                            /\ mappings[n].nixpkgs_attr = _known_mappings[k].nixpkgs_attr
                            /\ mappings[n].confidence = 100
                            /\ mappings[n].match_reason = OverrideReason

\* com.example.App was matched to app in Phase A (attr match), and the rule
\* com.example.App -> todoapp replaced that mapping.
C3_Witness ==
    /\ pc = "done"
    /\ InList(Id_App, flathub_components)
    /\ nixpkgs_packages = <<P_todoapp, P_app>>
    /\ _known_mappings = <<[flathub_id |-> Id_App, nixpkgs_attr |-> N_todoapp]>>
    /\ \E n \in 1..Len(mappings) :
          mappings[n].flathub_id = Id_App /\ mappings[n].nixpkgs_attr = N_todoapp

\* The confidence of every Mapping of m is one of the five levels, and it is
\* 1.0 exactly for the reason "override mapping".
ConfidenceLevels(m) ==
    \A n \in 1..Len(m) :
        /\ m[n].confidence \in {60, 70, 90, 95, 100}
        /\ (m[n].confidence = 100) <=> (m[n].match_reason = OverrideReason)

\* C4: every Mapping has a confidence in {0.60, 0.70, 0.90, 0.95, 1.0}, and
\* 1.0 exactly when its reason is "override mapping".
C4_ConfidenceLevels ==
    /\ ConfidenceLevels(mappings)
    /\ \A r \in 1..Len(returned) : ConfidenceLevels(returned[r])

\* A returned list that holds an override beside an automatic mapping.
C4_Witness ==
    /\ pc = "done"
    /\ \E a, b \in 1..Len(mappings) :
          mappings[a].confidence = 100 /\ mappings[b].confidence < 100

\* The list m is ranked: confidence descending, and among equal confidences
\* the raw identifier strictly ascending.
Ranked(m) ==
    \A n \in 1..(Len(m) - 1) :
        /\ m[n].confidence >= m[n + 1].confidence
        /\ m[n].confidence = m[n + 1].confidence =>
               StrLess(m[n].flathub_id, m[n + 1].flathub_id)

\* C5: every list returned by correlate is ranked, and sorting it again
\* leaves it unchanged.
C5_RankingOrder ==
    \A r \in 1..Len(returned) :
        /\ Ranked(returned[r])
        /\ SortMappings(returned[r]) = returned[r]

\* Two mappings of equal confidence were produced in the order opposite to
\* that of their identifiers, and the returned list has them ranked.
C5_Witness ==
    /\ pc = "done"
    /\ Len(flathub_components) = 2
    /\ StrLess(flathub_components[2], flathub_components[1])
    /\ Len(mappings) = 2
    /\ mappings[1].confidence = mappings[2].confidence
    /\ mappings[1].flathub_id = flathub_components[2]

\* C6: a second run of correlate on the same engine, with the same inputs
\* and known mappings, returns the list the first run returned.
C6_Determinism ==
    \A r \in 1..Len(returned) : returned[r] = returned[1]

\* The second run has returned, and its list holds an override and an
\* automatic mapping.
C6_Witness ==
    /\ Len(returned) = 2
    /\ \E a, b \in 1..Len(returned[2]) :
          returned[2][a].confidence = 100 /\ returned[2][b].confidence < 100

-----------------------------------------------------------------------------
(* Properties of the candidate scorer and of the homepage check.           *)

\* The position in m of the Mapping of flathub_id, 0 when it has none.
MappingOf(m, flathub_id) ==
    IF \E n \in 1..Len(m) : m[n].flathub_id = flathub_id
    THEN CHOOSE n \in 1..Len(m) : m[n].flathub_id = flathub_id
    ELSE 0

\* The package p is among the candidates c at confidence conf.
Proposed(c, p, conf) ==
    \E n \in 1..Len(c) : c[n].pkg = p /\ c[n].confidence = conf

\* Among the candidates c, every unclaimed package whose pname is the short
\* name of the current component is proposed by the pname rule at 0.95 with
\* a corroborating homepage and at 0.70 without, and not at the other one.
ShortNameProposals(c) ==
    \A k \in 1..Len(nixpkgs_packages) :
        /\ nixpkgs_packages[k].attr \notin matched_nix_attrs
        /\ Lower(nixpkgs_packages[k].pname) = FlathubName(flathub_components[idx])
        => IF _check_homepage_match(nixpkgs_packages[k].homepage,
                                    FlathubParts(flathub_components[idx]))
           THEN /\ Proposed(c, nixpkgs_packages[k], 95)
                /\ ~Proposed(c, nixpkgs_packages[k], 70)
           ELSE /\ Proposed(c, nixpkgs_packages[k], 70)
                /\ ~Proposed(c, nixpkgs_packages[k], 95)

\* The candidates that the Phase A step about to run builds.
CurrentCandidates ==
    Candidates(FlathubParts(flathub_components[idx]), FlathubName(flathub_components[idx]),
               pname_to_packages, nixpkgs_packages, matched_nix_attrs)

\* C7: for a component that reaches the scorer, every unclaimed package whose
\* short name equals the component's short name case-insensitively is
\* proposed at 0.95 when its homepage corroborates the identifier and at 0.70
\* when it does not; a Mapping of the returned list made by this rule carries
\* that confidence; and
\* org.mozilla.firefox with firefox homed at https://mozilla.org is mapped
\* at 0.95.
C7_ShortNameCandidates ==
    /\ pc = "phaseA" /\ Len(FlathubParts(flathub_components[idx])) >= 2 =>
          ShortNameProposals(CurrentCandidates)
    /\ pc = "done" =>
          \A n \in 1..Len(mappings) :
              mappings[n].match_reason[1] = "pname '" =>
                  /\ Lower(PackageOf(nixpkgs_packages, mappings[n].nixpkgs_attr).pname)
                         = FlathubName(mappings[n].flathub_id)
                  /\ mappings[n].confidence =
                         IF _check_homepage_match(
                                PackageOf(nixpkgs_packages, mappings[n].nixpkgs_attr).homepage,
                                FlathubParts(mappings[n].flathub_id))
                         THEN 95 ELSE 70
    /\ pc = "done" /\ InList(Id_firefox, flathub_components)
          /\ InList(P_firefox, nixpkgs_packages) =>
          /\ MappingOf(mappings, Id_firefox) # 0
          /\ mappings[MappingOf(mappings, Id_firefox)].nixpkgs_attr = N_firefox
          /\ mappings[MappingOf(mappings, Id_firefox)].confidence = 95

\* org.mozilla.firefox is mapped to firefox at 0.95, and the other component
\* is mapped by its short name at 0.70 to a package whose pname differs from
\* it in case only.
C7_Witness ==
    /\ pc = "done"
    /\ Len(mappings) = 2
    /\ mappings[1].flathub_id = Id_firefox
    /\ mappings[1].confidence = 95
    /\ mappings[2].confidence = 70
    /\ mappings[2].match_reason[1] = "pname '"
    /\ PackageOf(nixpkgs_packages, mappings[2].nixpkgs_attr).pname
           # FlathubName(mappings[2].flathub_id)

\* The prefix of the GIT_PLATFORMS entry of the homepage's domain, <<>> when
\* the homepage is on no such domain or falls under GIT_SUBDOMAINS.
PlatformPrefix(homepage) ==
    LET domain    == Lower(TldExtract(homepage).domain)
        subdomain == Lower(TldExtract(homepage).subdomain)
    IN  IF homepage = <<>> \/ UrlparseRaises(homepage) THEN <<>>
        ELSE IF \E k \in 1..Len(GIT_SUBDOMAINS) :
                    GIT_SUBDOMAINS[k].sub = subdomain /\ GIT_SUBDOMAINS[k].dom = domain
        THEN <<>>
        ELSE IF domain \in DOMAIN GIT_PLATFORMS THEN GIT_PLATFORMS[domain]
        ELSE <<>>

\* The prefix of the forge table entry the homepage falls under, of either
\* table, <<>> when it falls under none.
ForgePrefix(homepage) ==
    LET domain    == Lower(TldExtract(homepage).domain)
        subdomain == Lower(TldExtract(homepage).subdomain)
    IN  IF homepage = <<>> \/ UrlparseRaises(homepage) THEN <<>>
        ELSE IF \E k \in 1..Len(GIT_SUBDOMAINS) :
                    GIT_SUBDOMAINS[k].sub = subdomain /\ GIT_SUBDOMAINS[k].dom = domain
        THEN GIT_SUBDOMAINS[CHOOSE k \in 1..Len(GIT_SUBDOMAINS) :
                    GIT_SUBDOMAINS[k].sub = subdomain /\ GIT_SUBDOMAINS[k].dom = domain].prefix
        ELSE IF domain \in DOMAIN GIT_PLATFORMS THEN GIT_PLATFORMS[domain]
        ELSE <<>>

\* The identifier begins with the two segments of prefix.
BeginsWith(flathub_id, prefix) ==
    /\ Len(FlathubParts(flathub_id)) >= 2
    /\ SubSeq(FlathubParts(flathub_id), 1, 2) = Split(prefix, DOT)

\* The username check: the identifier has a segment after the two of the
\* prefix, and it is the first non-empty segment of the URL path, lowercased.
UsernameCheck(homepage, flathub_id) ==
    /\ PathParts(homepage) # <<>>
    /\ Len(FlathubParts(flathub_id)) >= 3
    /\ FlathubParts(flathub_id)[3] = Lower(PathParts(homepage)[1])

\* Whether homepage h falls under a forge of GIT_PLATFORMS whose prefix
\* identifier f begins with, for the homepages and the identifiers explored.
PlatformPrefixed ==
    Tabulated([h \in AllHomepages |->
                  Tabulated([f \in AllIds |->
                                /\ PlatformPrefix(h) # <<>>
                                /\ BeginsWith(f, PlatformPrefix(h))])])

\* Whether the username check of homepage h and identifier f succeeds, for
\* the homepages and the identifiers explored.
UsernameChecks ==
    Tabulated([h \in AllHomepages |-> Tabulated([f \in AllIds |-> UsernameCheck(h, f)])])

\* Whether homepage h corroborates identifier f, for the homepages and the
\* identifiers explored.
Corroborates ==
    Tabulated([h \in AllHomepages |->
                  Tabulated([f \in AllIds |-> _check_homepage_match(h, FlathubParts(f))])])

\* Whether the short name (pname) of package p is the short name of
\* identifier f, case-insensitively, for the packages and identifiers explored.
ShortNameMatches ==
    Tabulated([p \in MatchPackages |->
                  Tabulated([f \in AllIds |-> Lower(p.pname) = FlathubName(f)])])

\* Whether the attribute name of package p is the short name of identifier
\* f, case-insensitively, for the packages and identifiers explored.
AttrNameMatches ==
    Tabulated([p \in MatchPackages |->
                  Tabulated([f \in AllIds |-> Lower(p.attr) = FlathubName(f)])])

\* Whether identifier f reaches the scorer: it splits into 2 parts or more.
ReachesScorer == Tabulated([f \in AllIds |-> Len(FlathubParts(f)) >= 2])

\* The package's short name (pname) is the short name of f, case-insensitively.
ShortNameMatch(p, f) == ShortNameMatches[p][f]

\* The package's attribute name is the short name of f, case-insensitively.
AttrNameMatch(p, f) == AttrNameMatches[p][f]

\* C8, as stated: on a forge domain, with the forge's prefix and a failed
\* username check, the homepage corroborates only if the identifier is
\* exactly the two prefix segments; and net.sourceforge.oldtool with oldtool
\* homed at https://sourceforge.net/projects/oldtool is mapped at 0.70.
C8_Original ==
    pc = "done" =>
        /\ \A k \in 1..Len(nixpkgs_packages) :
              /\ PlatformPrefixed[nixpkgs_packages[k].homepage][flathub_components[1]]
              /\ ~UsernameChecks[nixpkgs_packages[k].homepage][flathub_components[1]]
              /\ Corroborates[nixpkgs_packages[k].homepage][flathub_components[1]]
              => Len(FlathubParts(flathub_components[1])) = 2
        /\ flathub_components = <<Id_oldtool>> /\ InList(P_oldtool, nixpkgs_packages) =>
              /\ MappingOf(mappings, Id_oldtool) # 0
              /\ mappings[MappingOf(mappings, Id_oldtool)].confidence = 70

\* C8, amended: on a forge domain, with the forge's prefix and a failed
\* username check, the homepage corroborates whatever the length of the
\* identifier; and net.sourceforge.oldtool with oldtool homed at
\* https://sourceforge.net/projects/oldtool is mapped at 0.95.
C8_PrefixCorroborates ==
    pc = "done" =>
        /\ \A k \in 1..Len(nixpkgs_packages) :
              /\ PlatformPrefixed[nixpkgs_packages[k].homepage][flathub_components[1]]
              /\ ~UsernameChecks[nixpkgs_packages[k].homepage][flathub_components[1]]
              => Corroborates[nixpkgs_packages[k].homepage][flathub_components[1]]
        /\ flathub_components = <<Id_oldtool>> /\ InList(P_oldtool, nixpkgs_packages) =>
              /\ MappingOf(mappings, Id_oldtool) # 0
              /\ mappings[MappingOf(mappings, Id_oldtool)].nixpkgs_attr = N_oldtool
              /\ mappings[MappingOf(mappings, Id_oldtool)].confidence = 95

\* net.sourceforge.oldtool has been mapped to oldtool, whose homepage path
\* starts with "projects", at 0.95.
C8_Witness ==
    /\ pc = "done"
    /\ flathub_components = <<Id_oldtool>>
    /\ ~UsernameCheck(Hp_sf_oldtool, Id_oldtool)
    /\ MappingOf(mappings, Id_oldtool) # 0
    /\ mappings[MappingOf(mappings, Id_oldtool)].nixpkgs_attr = N_oldtool
    /\ mappings[MappingOf(mappings, Id_oldtool)].confidence = 95

\* C9: a homepage that falls under a forge table corroborates an identifier
\* only if the identifier's first two segments are that forge's prefix, and
\* https://github.com/foo/bar does not corroborate com.github.foo.bar.
C9_ForgeOnlyByPrefix ==
    hp_pc = "return" =>
        /\ ForgePrefix(hp_homepage) # <<>> /\ hp_result =>
              BeginsWith(hp_flathub_id, ForgePrefix(hp_homepage))
        /\ hp_homepage = Hp_gh_foo /\ hp_flathub_id = Id_foobar => ~hp_result

\* The check has refused https://github.com/foo/bar for com.github.foo.bar,
\* whose segments hold the domain "github".
C9_Witness ==
    /\ hp_pc = "return"
    /\ hp_homepage = Hp_gh_foo
    /\ hp_flathub_id = Id_foobar
    /\ InList(S_github, AllButLast(FlathubParts(hp_flathub_id)))
    /\ ~hp_result

\* C10: on a forge domain, an identifier of at least 3 segments that begins
\* with the forge's prefix and whose next segment is the URL path's first
\* non-empty segment in lowercase is corroborated; a package that also
\* matches by short name gives a Mapping at 0.95 unless an override replaced
\* it; io.github.alice.todoapp with https://github.com/alice/todoapp is
\* mapped at 0.95.
C10_UsernameCorroborates ==
    pc = "done" =>
        /\ \A k \in 1..Len(nixpkgs_packages) :
              /\ PlatformPrefixed[nixpkgs_packages[k].homepage][flathub_components[1]]
              /\ UsernameChecks[nixpkgs_packages[k].homepage][flathub_components[1]]
              => /\ Corroborates[nixpkgs_packages[k].homepage][flathub_components[1]]
                 /\ ShortNameMatch(nixpkgs_packages[k], flathub_components[1]) =>
                       /\ MappingOf(mappings, flathub_components[1]) # 0
                       /\ mappings[MappingOf(mappings, flathub_components[1])].confidence
                              \in {95, 100}
                       /\ mappings[MappingOf(mappings, flathub_components[1])].confidence = 100
                              => mappings[MappingOf(mappings, flathub_components[1])].match_reason
                                     = OverrideReason
        /\ flathub_components = <<Id_alice>> /\ InList(P_todoapp, nixpkgs_packages) =>
              /\ MappingOf(mappings, Id_alice) # 0
              /\ mappings[MappingOf(mappings, Id_alice)].confidence = 95

\* io.github.alice.todoapp has been mapped at 0.95 to the package homed at
\* https://GitHub.com/Alice/todoapp: the username is compared in lowercase.
C10_Witness ==
    /\ pc = "done"
    /\ flathub_components = <<Id_alice>>
    /\ nixpkgs_packages = <<P_Todoapp>>
    /\ UsernameCheck(P_Todoapp.homepage, Id_alice)
    /\ MappingOf(mappings, Id_alice) # 0
    /\ mappings[MappingOf(mappings, Id_alice)].nixpkgs_attr = N_Todoapp
    /\ mappings[MappingOf(mappings, Id_alice)].confidence = 95

-----------------------------------------------------------------------------
(* Properties of the scorer, on the run of cmd_match: one component, and   *)
(* no package claimed when it is scored.                                   *)

\* Some package matches f by short name, with a corroborating homepage.
SomeShortNameCorroborated(f) ==
    \E k \in 1..Len(nixpkgs_packages) :
        ShortNameMatch(nixpkgs_packages[k], f) /\ Corroborates[nixpkgs_packages[k].homepage][f]

\* Some package matches f by attribute name, with a corroborating homepage.
SomeAttrNameCorroborated(f) ==
    \E k \in 1..Len(nixpkgs_packages) :
        AttrNameMatch(nixpkgs_packages[k], f) /\ Corroborates[nixpkgs_packages[k].homepage][f]

\* The run has ended, its one component reached the scorer, and no override
\* has replaced what the scorer gave.
ScoredRun ==
    /\ pc = "done"
    /\ Len(flathub_components) = 1
    /\ ReachesScorer[flathub_components[1]]
    /\ \A n \in 1..Len(mappings) : mappings[n].match_reason # OverrideReason

\* C11, as stated: a Mapping at 0.90 is produced only when no package's
\* short name equals the component's short name; when some package matches
\* by short name, the Mapping comes from rule 1 or rule 2 (0.95 or 0.70).
C11_Original ==
    ScoredRun =>
        /\ \A n \in 1..Len(mappings) :
              mappings[n].confidence = 90 =>
                  ~\E k \in 1..Len(nixpkgs_packages) :
                       ShortNameMatch(nixpkgs_packages[k], flathub_components[1])
        /\ (\E k \in 1..Len(nixpkgs_packages) :
                ShortNameMatch(nixpkgs_packages[k], flathub_components[1]))
              => /\ Len(mappings) = 1
                 /\ mappings[1].confidence \in {95, 70}

\* C11, amended: a Mapping at 0.90 is produced exactly when some package
\* matches by attribute name with a corroborating homepage and no package
\* matches by short name with a corroborating homepage; short-name matches
\* without corroboration (0.70) do not stand in its way, because the best
\* candidate is the one of highest confidence. When some package matches by
\* short name the Mapping is at 0.95, 0.90 or 0.70.
C11_AttrHomepageOutranks ==
    ScoredRun =>
        /\ (Len(mappings) = 1 /\ mappings[1].confidence = 90)
              <=> /\ SomeAttrNameCorroborated(flathub_components[1])
                  /\ ~SomeShortNameCorroborated(flathub_components[1])
        /\ Len(mappings) = 1 /\ mappings[1].confidence = 90 =>
              /\ AttrNameMatch(PackageOf(nixpkgs_packages, mappings[1].nixpkgs_attr),
                               flathub_components[1])
              /\ mappings[1].match_reason[1] = "attr '"
        /\ (\E k \in 1..Len(nixpkgs_packages) :
                ShortNameMatch(nixpkgs_packages[k], flathub_components[1]))
              => /\ Len(mappings) = 1
                 /\ mappings[1].confidence \in {95, 90, 70}
                 /\ mappings[1].confidence = 95
                        <=> SomeShortNameCorroborated(flathub_components[1])

\* com.example.App has been mapped at 0.90 to the package of attribute App,
\* while the package exampleapp, of short name App, was there to be taken.
C11_Witness ==
    /\ ScoredRun
    /\ flathub_components = <<Id_App>>
    /\ InList(P_exampleapp, nixpkgs_packages)
    /\ ShortNameMatch(P_exampleapp, Id_App)
    /\ Len(mappings) = 1
    /\ mappings[1].nixpkgs_attr = N_App
    /\ mappings[1].confidence = 90

\* Among the candidates c of the component about to be scored, a package is
\* proposed at 0.60 exactly when it is unclaimed, matches by attribute name,
\* has no corroborating homepage and does not match by short name; and no
\* package is proposed both at 0.70 and at 0.60.
AttrOnlyProposals(c) ==
    \A k \in 1..Len(nixpkgs_packages) :
        /\ Proposed(c, nixpkgs_packages[k], 60)
              <=> /\ nixpkgs_packages[k].attr \notin matched_nix_attrs
                  /\ AttrNameMatch(nixpkgs_packages[k], flathub_components[idx])
                  /\ ~Corroborates[nixpkgs_packages[k].homepage][flathub_components[idx]]
                  /\ ~ShortNameMatch(nixpkgs_packages[k], flathub_components[idx])
        /\ ~(Proposed(c, nixpkgs_packages[k], 70) /\ Proposed(c, nixpkgs_packages[k], 60))

\* C12: a package is proposed at 0.60 exactly when it is unclaimed, its
\* attribute name equals the component's short name case-insensitively, its
\* homepage does not corroborate the identifier and its short name differs
\* (case-insensitively) from the component's short name; no package is
\* proposed for the same component both at 0.70 and at 0.60; and a Mapping
\* at 0.60 is held by such a package.
C12_AttrOnlyCandidates ==
    /\ pc = "phaseA" /\ ReachesScorer[flathub_components[idx]] =>
          AttrOnlyProposals(CurrentCandidates)
    /\ ScoredRun =>
          \A n \in 1..Len(mappings) :
              mappings[n].confidence = 60 =>
                  /\ AttrNameMatch(PackageOf(nixpkgs_packages, mappings[n].nixpkgs_attr),
                                   mappings[n].flathub_id)
                  /\ ~ShortNameMatch(PackageOf(nixpkgs_packages, mappings[n].nixpkgs_attr),
                                     mappings[n].flathub_id)
                  /\ ~Corroborates[PackageOf(nixpkgs_packages,
                                             mappings[n].nixpkgs_attr).homepage]
                                  [mappings[n].flathub_id]

\* com.example.App has been mapped at 0.60 to the package of attribute app
\* and short name todoapp, which has no homepage.
C12_Witness ==
    /\ ScoredRun
    /\ flathub_components = <<Id_App>>
    /\ Len(mappings) = 1
    /\ mappings[1].nixpkgs_attr = N_app
    /\ mappings[1].confidence = 60
    /\ AttrNameMatch(P_app, Id_App)
    /\ ~ShortNameMatch(P_app, Id_App)

-----------------------------------------------------------------------------
(* Properties of correlate on identifiers of too few segments.             *)

\* Some known mapping names flathub_id and can be applied.
HasValidOverride(flathub_id) ==
    \E k \in 1..Len(_known_mappings) :
        /\ _known_mappings[k].flathub_id = flathub_id
        /\ ValidOverride(_known_mappings[k])

\* C13, as stated: a component whose identifier has fewer than 2 segments
\* has no Mapping in the result, whatever the packages and the overrides.
C13_Original ==
    pc = "done" =>
        \A i \in 1..Len(flathub_components) :
            Len(FlathubParts(flathub_components[i])) < 2 =>
                MappingOf(mappings, flathub_components[i]) = 0

\* C13, amended: a component whose identifier splits on "." into fewer than
\* 2 parts gets no automatic Mapping; the result holds a Mapping for it
\* exactly when a valid override rule names it, and that Mapping is the
\* override's, at confidence 1.0.
C13_OnlyByOverride ==
    /\ \A n \in 1..Len(mappings) :
          Len(FlathubParts(mappings[n].flathub_id)) < 2 =>
              /\ mappings[n].match_reason = OverrideReason
              /\ mappings[n].confidence = 100
    /\ pc = "done" =>
          \A i \in 1..Len(flathub_components) :
              Len(FlathubParts(flathub_components[i])) < 2 =>
                  (MappingOf(mappings, flathub_components[i]) # 0
                      <=> HasValidOverride(flathub_components[i]))

\* The component "firefox" was left out by Phase A although the package
\* firefox bears its name, and holds the Mapping of its override rule.
C13_Witness ==
    /\ pc = "done"
    /\ flathub_components = <<Id_bare>>
    /\ Len(FlathubParts(Id_bare)) < 2
    /\ InList(P_firefox, nixpkgs_packages)
    /\ HasValidOverride(Id_bare)
    /\ Len(mappings) = 1
    /\ mappings[1].flathub_id = Id_bare
    /\ mappings[1].nixpkgs_attr # N_firefox
    /\ mappings[1].confidence = 100

\* The segments of the identifier that are not empty, in lowercase.
NonEmptyParts(flathub_id) ==
    SelectSeq(FlathubParts(flathub_id), LAMBDA s : s # <<>>)

\* C14, as stated: the segment list given to the scorer holds no empty
\* string, the short name is the last non-empty segment, and an identifier
\* of fewer than 2 non-empty segments (".firefox", "firefox.") gets no
\* automatic Mapping.
C14_Original ==
    /\ pc = "phaseA" /\ Len(FlathubParts(flathub_components[idx])) >= 2 =>
          /\ ~InList(<<>>, FlathubParts(flathub_components[idx]))
          /\ NonEmptyParts(flathub_components[idx]) # <<>>
          /\ FlathubName(flathub_components[idx])
                 = NonEmptyParts(flathub_components[idx])
                       [Len(NonEmptyParts(flathub_components[idx]))]
    /\ pc = "done" =>
          \A n \in 1..Len(mappings) :
              Len(NonEmptyParts(mappings[n].flathub_id)) < 2 =>
                  mappings[n].match_reason = OverrideReason

\* C14, the failing run: ".firefox", of one non-empty segment, has been
\* mapped automatically to the package firefox at 0.70.
C14_Witness ==
    /\ pc = "done"
    /\ flathub_components = <<Id_dotfirefox>>
    /\ Len(NonEmptyParts(Id_dotfirefox)) = 1
    /\ InList(<<>>, FlathubParts(Id_dotfirefox))
    /\ Len(mappings) = 1
    /\ mappings[1].nixpkgs_attr = N_firefox
    /\ mappings[1].confidence = 70
    /\ mappings[1].match_reason[1] = "pname '"

-----------------------------------------------------------------------------
(* Properties of _check_homepage_match on its own.                         *)

\* The homepage is empty, or urlparse refuses it, or tldextract finds no
\* registered domain in it.
NoUsableDomain(homepage) ==
    \/ homepage = <<>>
    \/ UrlparseRaises(homepage)
    \/ TldExtract(homepage).domain = <<>>

\* C15, as stated: a homepage that is empty, unparsable or without a
\* registered domain corroborates no identifier.
C15_Original ==
    hp_pc = "return" /\ NoUsableDomain(hp_homepage) => ~hp_result

\* C15, the failing call: https://co.uk, which has a public suffix and no
\* registered domain, has corroborated ".firefox", whose prefix is the
\* empty segment.
C15_Witness ==
    /\ hp_pc = "return"
    /\ hp_homepage = Hp_suffix
    /\ TldExtract(hp_homepage).domain = <<>>
    /\ hp_flathub_id = Id_dotfirefox
    /\ hp_result

\* Where the host of the URL starts: after the first "//", 0 when there is
\* none.
HostStart(homepage) ==
    IF \E n \in 1..(Len(homepage) - 1) : homepage[n] = SLASH /\ homepage[n + 1] = SLASH
    THEN 2 + CHOOSE n \in 1..(Len(homepage) - 1) :
                 /\ homepage[n] = SLASH /\ homepage[n + 1] = SLASH
                 /\ \A m \in 1..(n - 1) : ~(homepage[m] = SLASH /\ homepage[m + 1] = SLASH)
    ELSE 0

\* The same homepage without the "www." its host starts with.
WithoutWww(homepage) ==
    IF /\ HostStart(homepage) # 0
       /\ Len(homepage) >= HostStart(homepage) + 3
       /\ SubSeq(homepage, HostStart(homepage), HostStart(homepage) + 3) = S_www \o <<DOT>>
    THEN SubSeq(homepage, 1, HostStart(homepage) - 1)
             \o SubSeq(homepage, HostStart(homepage) + 4, Len(homepage))
    ELSE homepage

\* C16: a homepage whose subdomain is "www" corroborates an identifier
\* exactly when the same homepage without the subdomain does; a "www"
\* segment in the identifier's prefix gives no corroboration when the domain
\* is not in the prefix.
C16_WwwIgnored ==
    hp_pc = "return" /\ ~UrlparseRaises(hp_homepage)
        /\ Lower(TldExtract(hp_homepage).subdomain) = S_www =>
        /\ TldExtract(WithoutWww(hp_homepage)).subdomain = <<>>
        /\ TldExtract(WithoutWww(hp_homepage)).domain = TldExtract(hp_homepage).domain
        /\ hp_result = _check_homepage_match(WithoutWww(hp_homepage),
                                             FlathubParts(hp_flathub_id))
        /\ ~InList(Lower(TldExtract(hp_homepage).domain),
                   AllButLast(FlathubParts(hp_flathub_id)))
              => ~hp_result

\* https://www.mozilla.org/firefox has been refused for www.alice.todoapp,
\* whose prefix holds the segment "www".
C16_Witness ==
    /\ hp_pc = "return"
    /\ hp_homepage = Hp_www_mozilla
    /\ Lower(TldExtract(hp_homepage).subdomain) = S_www
    /\ hp_flathub_id = Id_www
    /\ InList(S_www, AllButLast(FlathubParts(hp_flathub_id)))
    /\ ~hp_result

-----------------------------------------------------------------------------
(* Properties of the steps of correlate.                                   *)

\* The Phase B step about to run is on a rule that cannot be applied, and
\* it leaves the locals of correlate as they are.
SkipsInvalidOverride ==
    pc = "phaseB" /\ ~ValidOverride(_known_mappings[idx]) =>
        /\ mappings' = mappings
        /\ matched_nix_attrs' = matched_nix_attrs
        /\ matched_flathub_ids' = matched_flathub_ids

\* C17: an override rule whose identifier is not in the component set, or
\* whose target attribute is not in the package set, is skipped: the step
\* that handles it leaves the Mapping list and the claimed attribute names
\* as they were (and the step is taken: nothing is raised).
C17_InvalidOverrideSkipped == [][SkipsInvalidOverride]_vars

\* Phase B has ended on a rule for a known component and an unknown
\* attribute, and the component keeps its automatic Mapping.
C17_Witness ==
    /\ pc = "sort"
    /\ _known_mappings # <<>>
    /\ ~ValidOverride(_known_mappings[Len(_known_mappings)])
    /\ InList(_known_mappings[Len(_known_mappings)].flathub_id, flathub_components)
    /\ MappingOf(mappings, _known_mappings[Len(_known_mappings)].flathub_id) # 0
    /\ mappings[MappingOf(mappings, _known_mappings[Len(_known_mappings)].flathub_id)]
           .match_reason # OverrideReason
    /\ _known_mappings[Len(_known_mappings)].nixpkgs_attr \notin matched_nix_attrs

-----------------------------------------------------------------------------
(* Properties of Phase A over the orders of the components.                *)

\* The Phase A loop over the components in the order given, from the fresh
\* locals of a call.
RECURSIVE PhaseAOver(_, _, _)
PhaseAOver(components, index, packages) ==
    IF components = <<>>
    THEN [ mappings |-> <<>>, matched_flathub_ids |-> {}, matched_nix_attrs |-> {} ]
    ELSE CHOOSE after \in
             { PhaseAIteration(st, components[Len(components)], index, packages) :
                 st \in {PhaseAOver(AllButLast(components), index, packages)} } : TRUE

\* The processing orders of the components.
Orders(components) ==
    { o \in [1..Len(components) -> {components[k] : k \in 1..Len(components)}] :
        \A a, b \in 1..Len(components) : a # b => o[a] # o[b] }

\* The locals at the end of Phase A, for every batch input: the components
\* in the order of processing, and the package dict.
GreedyScan ==
    Tabulated([ components \in DistinctSeqs(ComponentIds, MaxComponents),
                packages \in PackageDicts(Packages, MaxPackages) |->
                    PhaseAOver(components, BuildIndex(packages), packages) ])

\* The attribute names claimed at the end of Phase A run in the order o.
ClaimedIn(o) == GreedyScan[o, nixpkgs_packages].matched_nix_attrs

\* The attribute names of the packages of the candidate list c.
AttrsOf(c) == { c[k].pkg.attr : k \in 1..Len(c) }

\* The attribute names of the packages proposed for a component when
\* nothing is claimed, for every component and package dict of a batch.
ProposedAttrs ==
    Tabulated([ flathub_id \in ComponentIds,
                packages \in PackageDicts(Packages, MaxPackages) |->
                    IF Len(FlathubParts(flathub_id)) < 2 THEN {}
                    ELSE AttrsOf(Candidates(FlathubParts(flathub_id),
                                            FlathubName(flathub_id),
                                            BuildIndex(packages), packages, {})) ])

\* The attribute names of the packages proposed for flathub_id when nothing
\* is claimed.
CandidateAttrs(flathub_id) == ProposedAttrs[flathub_id, nixpkgs_packages]

\* No package is proposed for two of the components.
NoSharedCandidate ==
    \A a, b \in 1..Len(flathub_components) :
        a # b => CandidateAttrs(flathub_components[a])
                     \cap CandidateAttrs(flathub_components[b]) = {}

\* The Phase A loop of the call has just ended.
PhaseAEnded ==
    \/ pc = "phaseB" /\ idx = 1
    \/ pc = "sort" /\ _known_mappings = <<>>

\* C18 as stated: the set of attribute names claimed at the end of Phase A
\* is the same for every processing order of the same components over the
\* same packages.
C18_Original ==
    PhaseAEnded => \A o \in Orders(flathub_components) : ClaimedIn(o) = matched_nix_attrs

\* C18, amended: the set claimed at the end of Phase A is that of the greedy
\* scan in the order processed; it is the same for every order when no
\* package is proposed for two components; and in every order a component
\* left without Mapping has all its proposed packages claimed.
C18_ClaimedSetByOrder ==
    PhaseAEnded =>
        /\ matched_nix_attrs = ClaimedIn(flathub_components)
        /\ NoSharedCandidate =>
               \A o \in Orders(flathub_components) : ClaimedIn(o) = matched_nix_attrs
        /\ \A o \in Orders(flathub_components) : \A k \in 1..Len(o) :
               o[k] \notin GreedyScan[o, nixpkgs_packages].matched_flathub_ids
                   => CandidateAttrs(o[k]) \subseteq ClaimedIn(o)

\* Phase A has ended with one name claimed, and another order of the same
\* components claims two.
C18_Witness ==
    /\ PhaseAEnded
    /\ Cardinality(matched_nix_attrs) = 1
    /\ \E o \in Orders(flathub_components) :
          /\ Cardinality(ClaimedIn(o)) = 2
          /\ matched_nix_attrs \subseteq ClaimedIn(o)

-----------------------------------------------------------------------------
(* Properties of generate_report on the list that correlate returned.      *)

\* The number of positions of the reported list whose confidence is in S.
CountConfidence(S) == Cardinality({k \in 1..Len(mappings) : mappings[k].confidence \in S})

\* C19: in the report built from the output of correlate, every Mapping is
\* counted in exactly one tier (override for 1.0, high for 0.90 and 0.95,
\* medium for 0.60 and 0.70): the four tier counts sum to total_mappings, the
\* override count is the number of Mappings with reason "override mapping",
\* and the low count is 0.
C19_TierCounts ==
    pc = "reported" =>
        /\ report.total_mappings = Len(mappings)
        /\ \A k \in 1..Len(mappings) : mappings[k].confidence \in {60, 70, 90, 95, 100}
        /\ report.by_confidence.override = CountConfidence({100})
        /\ report.by_confidence.high = CountConfidence({90, 95})
        /\ report.by_confidence.medium = CountConfidence({60, 70})
        /\ report.by_confidence.low = 0
        /\ report.by_confidence.override + report.by_confidence.high
               + report.by_confidence.medium + report.by_confidence.low
             = report.total_mappings
        /\ report.by_confidence.override
             = Cardinality({k \in 1..Len(mappings) : mappings[k].match_reason = OverrideReason})

\* A report of two Mappings, one an override and the other at 0.70.
C19_Witness ==
    /\ pc = "reported"
    /\ report.total_mappings = 2
    /\ report.by_confidence.override = 1
    /\ report.by_confidence.medium = 1
    /\ CountConfidence({70}) = 1

\* C20: for a report built from the list that correlate returned for the
\* same component set, total_mappings is at most total_flathub_components,
\* the coverage percentage lies between 0 and 100, and it is 0, with no
\* division made, when the component set is empty.
C20_Coverage ==
    pc = "reported" =>
        /\ report.total_flathub_components = Len(flathub_components)
        /\ report.total_mappings = Len(mappings)
        /\ report.total_mappings <= report.total_flathub_components
        /\ report.coverage_percent.den > 0
        /\ 0 <= report.coverage_percent.num
        /\ report.coverage_percent.num <= 100 * report.coverage_percent.den
        /\ flathub_components = <<>> =>
               /\ report.total_mappings = 0
               /\ report.coverage_percent = Percent(0, 1)

\* A report of full coverage: two components, both mapped, one of them by an
\* override although the scorer has candidates for it.
C20_Witness ==
    /\ pc = "reported"
    /\ report.total_flathub_components = 2
    /\ report.coverage_percent = Percent(2, 2)
    /\ \E k \in 1..Len(_known_mappings) :
          /\ ValidOverride(_known_mappings[k])
          /\ CandidateAttrs(_known_mappings[k].flathub_id) # {}

\* A report on an empty component set, with override rules present.
EmptyReport ==
    /\ pc = "reported"
    /\ flathub_components = <<>>
    /\ nixpkgs_packages # <<>>
    /\ _known_mappings # <<>>

-----------------------------------------------------------------------------
(* Properties of _transform_component on its own.                          *)

\* The number of children of that tag.
CountTag(children, tag) == Cardinality({k \in 1..Len(children) : children[k].tag = tag})

-----------------------------------------------------------------------------
(* Properties of the steps of Phase A.                                     *)

\* Some unclaimed package matches the component about to be processed, by
\* short name or by attribute name.
SomeUnclaimedMatch ==
    \E k \in 1..Len(nixpkgs_packages) :
        /\ nixpkgs_packages[k].attr \notin matched_nix_attrs
        /\ \/ ShortNameMatch(nixpkgs_packages[k], flathub_components[idx])
           \/ AttrNameMatch(nixpkgs_packages[k], flathub_components[idx])

\* The Phase A step on a scored component, whose candidates are c: the
\* mappings made so far stay as they are; with no candidate nothing is
\* added, and there is no candidate only when no unclaimed package matches;
\* otherwise one mapping is added, to an unclaimed package that is a
\* candidate of the highest confidence, and that package is claimed.
GreedyChoice(c) ==
    /\ Len(mappings') >= Len(mappings)
    /\ \A k \in 1..Len(mappings) : mappings'[k] = mappings[k]
    /\ (c = <<>>) <=> ~SomeUnclaimedMatch
    /\ IF c = <<>>
       THEN mappings' = mappings /\ matched_nix_attrs' = matched_nix_attrs
       ELSE /\ Len(mappings') = Len(mappings) + 1
            /\ mappings'[Len(mappings')].flathub_id = flathub_components[idx]
            /\ mappings'[Len(mappings')].nixpkgs_attr \notin matched_nix_attrs
            /\ \A k \in 1..Len(c) : c[k].confidence <= mappings'[Len(mappings')].confidence
            /\ \E k \in 1..Len(c) :
                  /\ c[k].pkg.attr = mappings'[Len(mappings')].nixpkgs_attr
                  /\ c[k].confidence = mappings'[Len(mappings')].confidence
            /\ matched_nix_attrs'
                 = matched_nix_attrs \cup {mappings'[Len(mappings')].nixpkgs_attr}

\* What a step of Phase A does.
GreedyStep ==
    pc = "phaseA" =>
        IF ReachesScorer[flathub_components[idx]]
        THEN GreedyChoice(CurrentCandidates)
        ELSE mappings' = mappings /\ matched_nix_attrs' = matched_nix_attrs

\* C22: Phase A is greedy in input order: a component that is scored is
\* mapped to a package of the highest confidence among the candidates built
\* from the packages not claimed by earlier components; it gets no mapping
\* only if no unclaimed package matches its short name by short name or by
\* attribute name; and a mapping, once emitted, is not changed or removed
\* by the processing of later components.
C22_GreedyInOrder == [][GreedyStep]_vars

\* Phase A has ended on bob then alice: bob took todoapp, the best of its
\* two candidates, and alice, whose identifier the homepage of todoapp
\* corroborates, is left with app at 0.70.
C22_Witness ==
    /\ PhaseAEnded
    /\ flathub_components = <<Id_bob, Id_alice>>
    /\ nixpkgs_packages = <<P_todoapp, P_app>>
    /\ Corroborates[P_todoapp.homepage][Id_alice]
    /\ MappingOf(mappings, Id_bob) # 0
    /\ mappings[MappingOf(mappings, Id_bob)].nixpkgs_attr = N_todoapp
    /\ MappingOf(mappings, Id_alice) # 0
    /\ mappings[MappingOf(mappings, Id_alice)].nixpkgs_attr = N_app
    /\ mappings[MappingOf(mappings, Id_alice)].confidence = 70

\* The position of package p in the package dict.
RegistryPos(p) == CHOOSE k \in 1..Len(nixpkgs_packages) : nixpkgs_packages[k] = p

\* The candidates c are in generation order: those of the short-name rule
\* before those of the attribute-name rule, and those of one rule in the
\* order of the package dict.
GenerationOrder(c) ==
    \A a, b \in 1..Len(c) :
        a < b =>
            IF c[a].reason[1] = c[b].reason[1]
            THEN RegistryPos(c[a].pkg) < RegistryPos(c[b].pkg)
            ELSE c[a].reason[1] = "pname '" /\ c[b].reason[1] = "attr '"

\* The mapping added by the step is made from the first candidate of c, in
\* the order of c, among those of the highest confidence; the package of no
\* other candidate of that confidence comes before its package in the dict.
FirstOfBest(c) ==
    /\ GenerationOrder(c)
    /\ c # <<>> =>
          /\ Len(mappings') = Len(mappings) + 1
          /\ \E k \in 1..Len(c) :
                /\ c[k].pkg.attr = mappings'[Len(mappings')].nixpkgs_attr
                /\ c[k].confidence = mappings'[Len(mappings')].confidence
                /\ c[k].reason = mappings'[Len(mappings')].match_reason
                /\ \A j \in 1..Len(c) : c[j].confidence <= c[k].confidence
                /\ \A j \in 1..(k - 1) : c[j].confidence < c[k].confidence
                /\ \A j \in 1..Len(c) :
                      c[j].confidence = c[k].confidence
                          => RegistryPos(c[k].pkg) <= RegistryPos(c[j].pkg)

\* What a step of Phase A on a scored component chooses.
TieStep ==
    pc = "phaseA" /\ ReachesScorer[flathub_components[idx]] => FirstOfBest(CurrentCandidates)

\* C23: when several candidates of a component share the maximum
\* confidence, the one chosen is the first in generation order: short-name
\* candidates in the order their packages appear in the package dict, then
\* attribute-name candidates in that order (the sort by confidence is
\* stable).
C23_FirstOfTies == [][TieStep]_vars

\* bob alone has been mapped to app, the first in the dict of two packages
\* of short name todoapp that both stand at 0.70.
C23_Witness ==
    /\ PhaseAEnded
    /\ flathub_components = <<Id_bob>>
    /\ nixpkgs_packages = <<P_app, P_todoapp_alt>>
    /\ ~Corroborates[P_todoapp_alt.homepage][Id_bob]
    /\ ShortNameMatch(P_todoapp_alt, Id_bob)
    /\ Len(mappings) = 1
    /\ mappings[1].nixpkgs_attr = N_app
    /\ mappings[1].confidence = 70

-----------------------------------------------------------------------------
(* Properties of the steps of Phase B.                                     *)

\* The override about to be applied replaces a Mapping of its identifier.
Replacing ==
    /\ pc = "phaseB"
    /\ ValidOverride(_known_mappings[idx])
    /\ MappingOf(mappings, _known_mappings[idx].flathub_id) # 0

\* The attribute name of the Mapping that the override about to be applied
\* replaces.
OldAttr == mappings[MappingOf(mappings, _known_mappings[idx].flathub_id)].nixpkgs_attr

\* What the step of a replacing override does to the claimed set.
ReleaseStep ==
    Replacing =>
        /\ _known_mappings[idx].nixpkgs_attr \in matched_nix_attrs'
        /\ OldAttr # _known_mappings[idx].nixpkgs_attr => OldAttr \notin matched_nix_attrs'
        /\ OldAttr = _known_mappings[idx].nixpkgs_attr => OldAttr \in matched_nix_attrs'
        /\ matched_nix_attrs'
             = (matched_nix_attrs \ {OldAttr}) \cup {_known_mappings[idx].nixpkgs_attr}

\* C24: when an override replaces the Mapping of its identifier and the old
\* attribute name differs from the override's target, then right after the
\* override is applied the old attribute name is not in the claimed set and
\* the target is; when the old attribute name is the target, it stays
\* claimed.
C24_ReleaseOnReplace == [][ReleaseStep]_vars

\* The override of com.example.App to todoapp has replaced its automatic
\* Mapping to app: app is released and todoapp is claimed.
C24_Witness ==
    /\ pc = "sort"
    /\ flathub_components = <<Id_App>>
    /\ nixpkgs_packages = <<P_app, P_todoapp>>
    /\ _known_mappings = <<[flathub_id |-> Id_App, nixpkgs_attr |-> N_todoapp]>>
    /\ Len(mappings) = 1
    /\ mappings[1].nixpkgs_attr = N_todoapp
    /\ mappings[1].match_reason = OverrideReason
    /\ matched_nix_attrs = {N_todoapp}

\* The positions of mappings that hold another identifier than that of the
\* override about to be applied are the same, with the same Mapping, before
\* and after the step.
OthersUntouched ==
    /\ \A k \in 1..Len(mappings) :
          mappings[k].flathub_id # _known_mappings[idx].flathub_id
              => k <= Len(mappings') /\ mappings'[k] = mappings[k]
    /\ \A k \in 1..Len(mappings') :
          mappings'[k].flathub_id # _known_mappings[idx].flathub_id
              => k <= Len(mappings) /\ mappings[k] = mappings'[k]

\* The automatic Mappings of the list are those that Phase A made.
AutomaticFromPhaseA ==
    \A k \in 1..Len(mappings) :
        mappings[k].match_reason # OverrideReason
            => InList(mappings[k], GreedyScan[flathub_components, nixpkgs_packages].mappings)

\* The attribute names that Phase A claimed and that are claimed no more.
Released ==
    GreedyScan[flathub_components, nixpkgs_packages].matched_nix_attrs \ matched_nix_attrs

\* Phase B is entered with the locals that Phase A over all the components
\* leaves, is not left for Phase A, and each of its steps leaves the
\* Mappings of the other identifiers as they are; no automatic Mapping is
\* made after Phase A.
FrameStep ==
    /\ pc' = "phaseB" /\ pc # "phaseB" =>
          /\ mappings' = GreedyScan[flathub_components, nixpkgs_packages].mappings
          /\ matched_nix_attrs'
               = GreedyScan[flathub_components, nixpkgs_packages].matched_nix_attrs
          /\ matched_flathub_ids'
               = GreedyScan[flathub_components, nixpkgs_packages].matched_flathub_ids
    /\ pc = "phaseB" =>
          /\ pc' \in {"phaseB", "sort"}
          /\ OthersUntouched
          /\ AutomaticFromPhaseA
    /\ pc = "sort" => AutomaticFromPhaseA

\* No override assigns an attribute name that an earlier override released.
NoReassignment ==
    pc = "phaseB" /\ ValidOverride(_known_mappings[idx])
        => _known_mappings[idx].nixpkgs_attr \notin Released

\* C25, as stated: Phase B begins only after every component has been
\* scored once; applying an override for an identifier never adds, removes
\* or changes the Mapping of another identifier; and an attribute name
\* released by an override is never assigned to another component in the
\* same run.
C25_Original == [][FrameStep /\ NoReassignment]_vars

\* C25, amended: Phase B begins only after every component has been scored
\* once; applying an override for an identifier never adds, removes or
\* changes the Mapping of another identifier; and an attribute name released
\* by an override is never assigned by the automatic matching in the same
\* run: the automatic Mappings stay those of Phase A (a later override may
\* still assign the name).
C25_OverrideFrame == [][FrameStep]_vars

\* com.example.App was mapped to app by Phase A and bob to todoapp; the
\* first rule moved App to todoapp, which released app and left the Mapping
\* of bob alone, and the second rule has given app to bob.
C25_Witness ==
    /\ pc = "sort"
    /\ flathub_components = <<Id_App, Id_bob>>
    /\ nixpkgs_packages = <<P_app, P_todoapp>>
    /\ _known_mappings = << [flathub_id |-> Id_App, nixpkgs_attr |-> N_todoapp],
                            [flathub_id |-> Id_bob, nixpkgs_attr |-> N_app] >>
    /\ GreedyScan[flathub_components, nixpkgs_packages].mappings[1].nixpkgs_attr = N_app
    /\ mappings[MappingOf(mappings, Id_App)].nixpkgs_attr = N_todoapp
    /\ mappings[MappingOf(mappings, Id_bob)].nixpkgs_attr = N_app
    /\ mappings[MappingOf(mappings, Id_bob)].match_reason = OverrideReason

-----------------------------------------------------------------------------
(* The standard domain matching, for the homepages outside the forge       *)
(* tables.                                                                 *)

\* The registered domain of the homepage in lowercase, empty when the
\* homepage is empty, refused by urlparse or made of a public suffix only.
RegisteredDomain(homepage) ==
    IF homepage = <<>> \/ UrlparseRaises(homepage) THEN <<>>
    ELSE Lower(TldExtract(homepage).domain)

\* The subdomain of the homepage in lowercase, empty when there is none.
SubdomainOf(homepage) ==
    IF homepage = <<>> \/ UrlparseRaises(homepage) THEN <<>>
    ELSE Lower(TldExtract(homepage).subdomain)

\* The homepage is in neither GIT_SUBDOMAINS nor GIT_PLATFORMS.
InNeitherForgeTable(homepage) ==
    /\ SubdomainHits(SubdomainOf(homepage), RegisteredDomain(homepage)) = {}
    /\ RegisteredDomain(homepage) \notin DOMAIN GIT_PLATFORMS

\* The registered domain, or a subdomain other than "www", is one of the
\* segments of the identifier before the last one.
DomainInPrefix(homepage, flathub_id) ==
    \/ /\ RegisteredDomain(homepage) # <<>>
       /\ InList(RegisteredDomain(homepage), AllButLast(NonEmptyParts(flathub_id)))
    \/ /\ SubdomainOf(homepage) # <<>>
       /\ SubdomainOf(homepage) # S_www
       /\ InList(SubdomainOf(homepage), AllButLast(NonEmptyParts(flathub_id)))

\* C26, as stated: for a homepage that is in neither forge table,
\* corroboration holds exactly when the registered domain, or a subdomain
\* other than "www", equals one of the identifier's segments excluding the
\* last one; a domain equal only to the last segment does not corroborate,
\* and https://example.com/unrelated does not corroborate
\* io.github.bob.todoapp, which leaves the match at 0.70.
C26_Original ==
    hp_pc = "return" /\ InNeitherForgeTable(hp_homepage) =>
        /\ hp_result <=> DomainInPrefix(hp_homepage, hp_flathub_id)
        /\ hp_homepage = Hp_example /\ hp_flathub_id = Id_bob => ~hp_result

\* C26, the failing call: https://firefox.com, in neither forge table, has
\* corroborated "firefox.", whose only segment, and so its last one, is
\* "firefox".
C26_Witness ==
    /\ hp_pc = "return"
    /\ hp_homepage = Hp_firefox
    /\ InNeitherForgeTable(hp_homepage)
    /\ hp_flathub_id = Id_firefoxdot
    /\ NonEmptyParts(hp_flathub_id) = <<RegisteredDomain(hp_homepage)>>
    /\ hp_result

-----------------------------------------------------------------------------
(* The order in which the override rules are applied.                      *)

\* The locals after the Phase B loop over the rules, from the locals st.
RECURSIVE PhaseBOver(_, _, _, _)
PhaseBOver(st, rules, components, packages) ==
    IF rules = <<>> THEN st
    ELSE CHOOSE after \in
             { PhaseBIteration(before, rules[Len(rules)], components, packages) :
                 before \in {PhaseBOver(st, AllButLast(rules), components, packages)} } : TRUE

\* The list that correlate returns when the rules are applied in the order
\* o after Phase A.
ReturnedFor(o) ==
    SortMappings(PhaseBOver(GreedyScan[flathub_components, nixpkgs_packages], o,
                            flathub_components, nixpkgs_packages).mappings)

\* C27: the ranked list returned by correlate does not depend on the order
\* in which the override rules, one per identifier, are applied: every
\* order of the same rules gives the list that the run returned.
C27_RuleOrderIrrelevant ==
    pc = "done" /\ OnePerIdentifier(_known_mappings) =>
        \A o \in Orders(_known_mappings) : ReturnedFor(o) = returned[Len(returned)]

\* A run has returned after two rules for components that Phase A left
\* unmapped: the Mappings were appended in the order of the rules, bob
\* first, and the returned list has com.example.App first.
C27_Witness ==
    /\ pc = "done"
    /\ flathub_components = <<Id_bob, Id_App>>
    /\ nixpkgs_packages = <<P_firefox>>
    /\ _known_mappings = << [flathub_id |-> Id_bob, nixpkgs_attr |-> N_firefox],
                            [flathub_id |-> Id_App, nixpkgs_attr |-> N_firefox] >>
    /\ GreedyScan[flathub_components, nixpkgs_packages].mappings = <<>>
    /\ Cardinality(Orders(_known_mappings)) = 2
    /\ Len(returned[Len(returned)]) = 2
    /\ returned[Len(returned)][1].flathub_id = Id_App
    /\ returned[Len(returned)][2].flathub_id = Id_bob

-----------------------------------------------------------------------------
(* The returned Mappings and the inputs.                                   *)

\* The Mapping names a component of the batch and a package of the batch,
\* and carries the version of that package.
RefersToInputs(m) ==
    /\ InList(m.flathub_id, flathub_components)
    /\ \E k \in 1..Len(nixpkgs_packages) : nixpkgs_packages[k].attr = m.nixpkgs_attr
    /\ \A k \in 1..Len(nixpkgs_packages) :
          nixpkgs_packages[k].attr = m.nixpkgs_attr
              => m.nixpkgs_version = nixpkgs_packages[k].version

\* C28: every Mapping returned by correlate refers to existing inputs: its
\* identifier is a key of the component set, its attribute name is a key of
\* the package set, and its version is the version of the package with that
\* attribute name.
C28_RefersToInputs ==
    pc = "done" =>
        \A n \in 1..Len(returned[Len(returned)]) :
            RefersToInputs(returned[Len(returned)][n])

\* A run has returned an automatic Mapping and an override Mapping, while a
\* rule for a component that is not in the batch was skipped.
C28_Witness ==
    /\ pc = "done"
    /\ flathub_components = <<Id_bob>>
    /\ nixpkgs_packages = <<P_todoapp, P_firefox>>
    /\ _known_mappings = << [flathub_id |-> Id_App, nixpkgs_attr |-> N_firefox],
                            [flathub_id |-> Id_bob, nixpkgs_attr |-> N_firefox] >>
    /\ Len(returned[Len(returned)]) = 1
    /\ returned[Len(returned)][1].nixpkgs_version = P_firefox.version
    /\ GreedyScan[flathub_components, nixpkgs_packages].mappings[1].nixpkgs_version
           = P_todoapp.version

-----------------------------------------------------------------------------
(* No automatic match is forced.                                           *)

\* The short name of the identifier: the last of its non-empty segments,
\* empty when it has none.
ShortName(flathub_id) ==
    IF NonEmptyParts(flathub_id) = <<>> THEN <<>>
    ELSE NonEmptyParts(flathub_id)[Len(NonEmptyParts(flathub_id))]

\* The short name or the attribute name of the package equals the short
\* name of the identifier, case-insensitively.
NamedAs(p, flathub_id) ==
    \/ Lower(p.pname) = ShortName(flathub_id)
    \/ Lower(p.attr) = ShortName(flathub_id)

\* The Phase A step about to run is on a component for which no unclaimed
\* package is named as the component, and it adds no Mapping.
NothingForced ==
    /\ pc = "phaseA"
    /\ \A k \in 1..Len(nixpkgs_packages) :
          nixpkgs_packages[k].attr \notin matched_nix_attrs
              => ~NamedAs(nixpkgs_packages[k], flathub_components[idx])
    => mappings' = mappings

\* Every automatic Mapping of the list pairs a component with a package
\* named as the component.
AutomaticAreNamed ==
    \A n \in 1..Len(mappings) :
        mappings[n].match_reason # OverrideReason
            => NamedAs(PackageOf(nixpkgs_packages, mappings[n].nixpkgs_attr),
                       mappings[n].flathub_id)

\* C29, as stated: every Mapping whose reason is not "override mapping"
\* pairs a component with a package whose short name or attribute name
\* equals, case-insensitively, the last segment of the component's
\* identifier, and a component for which no such unclaimed package exists
\* gets no automatic Mapping.
C29_Original == [][AutomaticAreNamed /\ NothingForced]_vars

\* C29, the failing run: "firefox.", whose last segment is "firefox", has
\* been mapped automatically to the package blank, whose short name is
\* empty.
C29_Witness ==
    /\ pc = "done"
    /\ flathub_components = <<Id_firefoxdot>>
    /\ ShortName(Id_firefoxdot) = N_firefox
    /\ Len(mappings) = 1
    /\ mappings[1].nixpkgs_attr = N_blank
    /\ mappings[1].match_reason # OverrideReason

-----------------------------------------------------------------------------
(* The claimed attribute names and the Mapping list.                       *)

\* The attribute names that the Mappings of the list hold.
HeldAttrs == { mappings[n].nixpkgs_attr : n \in 1..Len(mappings) }

\* The attribute names that the automatic Mappings of the list hold.
AutomaticAttrs ==
    { mappings[n].nixpkgs_attr :
        n \in { k \in 1..Len(mappings) : mappings[k].match_reason # OverrideReason } }

\* C30, as stated: at every point of a run, after each override of Phase B
\* and at the end of the run included, the claimed-attribute set equals the
\* set of attribute names in the current Mapping list.
C30_Original == matched_nix_attrs = HeldAttrs

\* C30, amended: throughout Phase A and when Phase B begins the claimed set
\* equals the set of attribute names in the Mapping list; during Phase B
\* and at the end of the run every claimed name is held by a Mapping and
\* every name held by an automatic Mapping is claimed, while a name held by
\* an override Mapping may be unclaimed.
C30_ClaimedAreHeld ==
    /\ matched_nix_attrs \subseteq HeldAttrs
    /\ AutomaticAttrs \subseteq matched_nix_attrs
    /\ pc = "phaseA" \/ PhaseAEnded => matched_nix_attrs = HeldAttrs

\* The first rule gave todoapp, which bob held, to com.example.App; the
\* second rule moved bob to app and released todoapp, which
\* com.example.App still holds.
C30_Witness ==
    /\ pc = "sort"
    /\ flathub_components = <<Id_App, Id_bob>>
    /\ nixpkgs_packages = <<P_app, P_todoapp>>
    /\ _known_mappings = << [flathub_id |-> Id_App, nixpkgs_attr |-> N_todoapp],
                            [flathub_id |-> Id_bob, nixpkgs_attr |-> N_app] >>
    /\ HeldAttrs = {N_todoapp, N_app}
    /\ matched_nix_attrs = {N_app}

====
